---- MODULE Spec2Model ----
(***************************************************************************)
(* serde_tjs: the Value model and its text rendering (src/value.rs), the   *)
(* parser (src/parser.rs) and the serde bridges (src/ser.rs, src/de.rs).   *)
(*                                                                         *)
(* Text is a sequence of UTF-8 bytes (0..255); a char is its code point.   *)
(* An i64 is a sign and a canonical decimal magnitude, so the full 64-bit  *)
(* range is kept.  A finite f64 is its shortest decimal representation     *)
(* (sign, significant digits, power of ten of the last digit), which is    *)
(* what Rust's Display prints and what str::parse::<f64> recovers.          *)
(***************************************************************************)
EXTENDS Integers, Sequences, FiniteSets, TLC

VARIABLES
    value,      \* the Value in hand (built by the caller, or by to_value)
    options,    \* the SerializeOptions passed to the printer
    text,       \* the text in hand (printer output, or parser input)
    parsed,     \* Result<Value> of the last parse_str, or NoResult
    doc,        \* how the parser input was composed (lead, hints, core, tail)
    previous,   \* Result<Value> of the parse before the last edit of the text
    data,       \* the application value given to the serialization bridge
    restored,   \* Result<T> of the last from_str / from_value, or NoResult
    vec,        \* Result<Vec<u8>> of the last to_vec family call, or NoResult
    sink,       \* the caller's writer: [before, bytes, result]
    ser,        \* the MapSerializer a Serialize impl drives: [entries, next_key]
    de,         \* the MapDeserializer a visitor drives: [iter, value]
    calls,      \* the calls made on ser / de so far, each with its result
    parser,     \* the Parser while parse_str runs: [position, stack, ret]
    pc          \* the last operation performed

vars == <<value, options, text, parsed, doc, previous, data, restored, vec, sink,
          ser, de, calls, parser, pc>>

-----------------------------------------------------------------------------
(* Bytes of ASCII literals *)

AsciiTable ==
    << " ", "!", "\"", "#", "$", "%", "&", "'", "(", ")", "*", "+", ",", "-", ".", "/",
       "0", "1", "2", "3", "4", "5", "6", "7", "8", "9", ":", ";", "<", "=", ">", "?",
       "@", "A", "B", "C", "D", "E", "F", "G", "H", "I", "J", "K", "L", "M", "N", "O",
       "P", "Q", "R", "S", "T", "U", "V", "W", "X", "Y", "Z", "[", "\\", "]", "^", "_",
       "(backtick)", "a", "b", "c", "d", "e", "f", "g", "h", "i", "j", "k", "l", "m", "n", "o",
       "p", "q", "r", "s", "t", "u", "v", "w", "x", "y", "z", "{", "|", "}", "~" >>

Ord(c) == 31 + (CHOOSE i \in 1..Len(AsciiTable) : AsciiTable[i] = c)

B(s) == [i \in 1..Len(s) |-> Ord(s[i])]

Repeat(b, n) == [i \in 1..n |-> b]

DigitBytes(digs) == [i \in 1..Len(digs) |-> 48 + digs[i]]

HexDigitLower(n) == IF n < 10 THEN 48 + n ELSE 87 + n

\* format!("{:0w$x}", code)
HexLower(code, width) ==
    LET RECURSIVE hex(_, _)
        hex(n, w) == IF w = 0 /\ n = 0 THEN <<>>
                     ELSE hex(n \div 16, IF w = 0 THEN 0 ELSE w - 1)
                          \o <<HexDigitLower(n % 16)>>
    IN hex(code, width)

\* char::encode_utf8
Utf8(ch) ==
    IF ch < 128 THEN <<ch>>
    ELSE IF ch < 2048 THEN <<192 + (ch \div 64), 128 + (ch % 64)>>
    ELSE IF ch < 65536 THEN
        <<224 + (ch \div 4096), 128 + ((ch \div 64) % 64), 128 + (ch % 64)>>
    ELSE <<240 + (ch \div 262144), 128 + ((ch \div 4096) % 64),
           128 + ((ch \div 64) % 64), 128 + (ch % 64)>>

RECURSIVE Utf8Str(_)
Utf8Str(chars) ==
    IF chars = <<>> THEN <<>> ELSE Utf8(Head(chars)) \o Utf8Str(Tail(chars))

\* char::is_control: general category Cc
is_control(ch) == ch <= 31 \/ (ch >= 127 /\ ch <= 159)

\* char::is_whitespace: the White_Space property
is_whitespace(ch) ==
    \/ (ch >= 9 /\ ch <= 13)
    \/ ch \in {32, 133, 160, 5760, 8232, 8233, 8239, 8287, 12288}
    \/ (ch >= 8192 /\ ch <= 8202)

-----------------------------------------------------------------------------
(* Option and Result *)

None == [some |-> FALSE]
Some(x) == [some |-> TRUE, v |-> x]

Ok(x) == [ok |-> TRUE, v |-> x]
\* an error of the bridge that is given an offset, as the parser's errors are
ErrorNew_at_offset(message) == [ok |-> FALSE, message |-> message, position |-> Some(0)]

\* Error::new
ErrorNew(message) == [ok |-> FALSE, message |-> message, position |-> None]
\* Error::with_position
ErrorWithPosition(message, position) ==
    [ok |-> FALSE, message |-> message, position |-> Some(position)]

NoResult == [ok |-> FALSE, message |-> "not called", position |-> None]

-----------------------------------------------------------------------------
(* Value *)

Void == [tag |-> "Void"]
Null == [tag |-> "Null"]
Bool(b) == [tag |-> "Bool", b |-> b]
Integer(n) == [tag |-> "Integer", n |-> n]
Real(x) == [tag |-> "Real", x |-> x]
String(s) == [tag |-> "String", s |-> s]
Octet(bytes) == [tag |-> "Octet", bytes |-> bytes]
Entry(key, val) == [key |-> key, value |-> val]
Array(items) == [tag |-> "Array", items |-> items]
Dictionary(entries) == [tag |-> "Dictionary", entries |-> entries]

\* i64: sign and decimal magnitude (no leading zeros; zero is +<<0>>)
I64(neg, mag) == [neg |-> neg, mag |-> mag]
\* f64
NaN == [kind |-> "nan"]
Infinity(neg) == [kind |-> "inf", neg |-> neg]
\* finite f64 = (-1)^neg * digs * 10^exp, digs without leading or trailing zeros
Finite(neg, digs, exp) == [kind |-> "fin", neg |-> neg, digs |-> digs, exp |-> exp]

f64_is_zero(x) == x.kind = "fin" /\ x.digs = <<0>>

\* f64 == f64 : NaN is unequal to everything, -0.0 equals 0.0
f64_eq(x, y) ==
    /\ x.kind # "nan"
    /\ y.kind # "nan"
    /\ \/ f64_is_zero(x) /\ f64_is_zero(y)
       \/ x = y

\* IndexMap::get
RECURSIVE IndexMapGet(_, _)
IndexMapGet(entries, key) ==
    IF entries = <<>> THEN None
    ELSE IF Head(entries).key = key THEN Some(Head(entries).value)
    ELSE IndexMapGet(Tail(entries), key)

\* #[derive(PartialEq)] for Value; IndexMap equality ignores the order
RECURSIVE ValueEq(_, _)
ValueEq(a, b) ==
    /\ a.tag = b.tag
    /\ CASE a.tag = "Real" -> f64_eq(a.x, b.x)
         [] a.tag = "Array" ->
                /\ Len(a.items) = Len(b.items)
                /\ \A i \in 1..Len(a.items) : ValueEq(a.items[i], b.items[i])
         [] a.tag = "Dictionary" ->
                /\ Len(a.entries) = Len(b.entries)
                /\ \A i \in 1..Len(a.entries) :
                      LET other == IndexMapGet(b.entries, a.entries[i].key)
                      IN other.some /\ ValueEq(a.entries[i].value, other.v)
         [] OTHER -> a = b

\* SerializeOptions::default
DefaultOptions == [const_hint |-> TRUE, indent |-> None]

-----------------------------------------------------------------------------
(* Printer: src/value.rs *)

\* write!(writer, "{}", num) for an i64
fmt_i64(n) == (IF n.neg THEN <<45>> ELSE <<>>) \o DigitBytes(n.mag)

\* write!(writer, "{}", num) for a finite f64: plain decimal, never an exponent
fmt_f64(x) ==
    LET n == Len(x.digs)
        body ==
            IF x.exp >= 0 THEN DigitBytes(x.digs) \o Repeat(48, x.exp)
            ELSE IF n > -x.exp THEN
                DigitBytes(SubSeq(x.digs, 1, n + x.exp)) \o <<46>>
                \o DigitBytes(SubSeq(x.digs, n + x.exp + 1, n))
            ELSE <<48, 46>> \o Repeat(48, (-x.exp) - n) \o DigitBytes(x.digs)
    IN (IF x.neg THEN <<45>> ELSE <<>>) \o body

\* f64::fract(num) == 0.0
fract_is_zero(x) == x.exp >= 0

\* f64::fract(num) == 1.0 : the fractional part lies strictly inside (-1, 1)
fract_is_one(x) == FALSE

write_real_nodot(x) ==
    IF x.kind = "nan" THEN B(<<"N", "a", "N">>)
    ELSE IF x.kind = "inf" THEN
        IF x.neg THEN B(<<"-", "I", "n", "f", "i", "n", "i", "t", "y">>)
        ELSE B(<<"I", "n", "f", "i", "n", "i", "t", "y">>)
    ELSE fmt_f64(x)

\* Value::write_internal, the Real arm
write_real(x) ==
    IF x.kind = "nan" THEN B(<<"N", "a", "N">>)
    ELSE IF x.kind = "inf" THEN
        IF x.neg THEN B(<<"-", "I", "n", "f", "i", "n", "i", "t", "y">>)
        ELSE B(<<"I", "n", "f", "i", "n", "i", "t", "y">>)
    ELSE IF fract_is_zero(x) \/ fract_is_one(x) THEN fmt_f64(x) \o <<46, 48>>
    ELSE fmt_f64(x)

escape_char_noquote(ch) ==
    IF ch = 92 THEN <<92, 92>>
    ELSE IF is_control(ch) THEN <<92, 120>> \o HexLower(ch, 2)
    ELSE Utf8(ch)

\* write_string, one iteration of the loop over text.chars()
escape_char(ch) ==
    IF ch = 92 THEN <<92, 92>>
    ELSE IF ch = 34 THEN <<92, 34>>
    ELSE IF ch = 10 THEN <<92, 110>>
    ELSE IF ch = 13 THEN <<92, 114>>
    ELSE IF ch = 9 THEN <<92, 116>>
    ELSE IF ch = 8 THEN <<92, 98>>
    ELSE IF ch = 12 THEN <<92, 102>>
    ELSE IF is_control(ch) THEN
        IF ch <= 255 THEN <<92, 120>> \o HexLower(ch, 2)
        ELSE <<92, 117>> \o HexLower(ch, 4)
    ELSE Utf8(ch)

RECURSIVE escape_chars(_)
escape_chars(chars) ==
    IF chars = <<>> THEN <<>>
    ELSE escape_char(Head(chars)) \o escape_chars(Tail(chars))

write_string(chars) == <<34>> \o escape_chars(chars) \o <<34>>

RECURSIVE octet_pairs(_, _)
octet_pairs(bytes, idx) ==
    IF idx > Len(bytes) THEN <<>>
    ELSE (IF idx > 1 THEN <<32>> ELSE <<>>) \o HexLower(bytes[idx], 2)
         \o octet_pairs(bytes, idx + 1)

write_octet(bytes) ==
    <<60, 37>>
    \o (IF bytes # <<>> THEN <<32>> ELSE <<>>)
    \o octet_pairs(bytes, 1)
    \o (IF bytes # <<>> THEN <<32>> ELSE <<>>)
    \o <<37, 62>>

write_indent_flat(indent, depth) == Repeat(32, indent)

write_indent(indent, depth) == Repeat(32, indent * depth)

const_prefix_always(opts) == B(<<"(", "c", "o", "n", "s", "t", ")", " ">>)

\* if options.const_hint { writer.write_str("(const) ")?; }
const_prefix(opts) ==
    IF opts.const_hint THEN B(<<"(", "c", "o", "n", "s", "t", ")", " ">>) ELSE <<>>

RECURSIVE write_internal(_, _, _)
RECURSIVE write_items(_, _, _, _)
RECURSIVE write_entries(_, _, _, _)

\* the loops over items.iter().enumerate()
write_items(items, opts, depth, idx) ==
    IF idx > Len(items) THEN <<>>
    ELSE (IF opts.indent.some
          THEN (IF idx > 1 THEN <<44, 10>> ELSE <<>>)
               \o write_indent(opts.indent.v, depth + 1)
          ELSE (IF idx > 1 THEN <<44, 32>> ELSE <<>>))
         \o write_internal(items[idx], opts, depth + 1)
         \o write_items(items, opts, depth, idx + 1)

\* the loops over entries.iter().enumerate()
write_entries(entries, opts, depth, idx) ==
    IF idx > Len(entries) THEN <<>>
    ELSE (IF opts.indent.some
          THEN (IF idx > 1 THEN <<44, 10>> ELSE <<>>)
               \o write_indent(opts.indent.v, depth + 1)
          ELSE (IF idx > 1 THEN <<44, 32>> ELSE <<>>))
         \o write_string(entries[idx].key)
         \o B(<<" ", "=", ">", " ">>)
         \o write_internal(entries[idx].value, opts, depth + 1)
         \o write_entries(entries, opts, depth, idx + 1)

write_internal(v, opts, depth) ==
    CASE v.tag = "Void" -> B(<<"v", "o", "i", "d">>)
      [] v.tag = "Null" -> B(<<"n", "u", "l", "l">>)
      [] v.tag = "Bool" ->
            IF v.b THEN B(<<"t", "r", "u", "e">>) ELSE B(<<"f", "a", "l", "s", "e">>)
      [] v.tag = "Integer" -> fmt_i64(v.n)
      [] v.tag = "Real" -> write_real(v.x)
      [] v.tag = "String" -> write_string(v.s)
      [] v.tag = "Octet" -> write_octet(v.bytes)
      [] v.tag = "Array" ->
            const_prefix(opts) \o <<91>>
            \o (IF opts.indent.some
                THEN IF v.items # <<>>
                     THEN <<10>> \o write_items(v.items, opts, depth, 1)
                          \o <<10>> \o write_indent(opts.indent.v, depth)
                     ELSE <<>>
                ELSE write_items(v.items, opts, depth, 1))
            \o <<93>>
      [] v.tag = "Dictionary" ->
            const_prefix(opts) \o <<37, 91>>
            \o (IF opts.indent.some
                THEN IF v.entries # <<>>
                     THEN <<10>> \o write_entries(v.entries, opts, depth, 1)
                          \o <<10>> \o write_indent(opts.indent.v, depth)
                     ELSE <<>>
                ELSE write_entries(v.entries, opts, depth, 1))
            \o <<93>>

\* Value::write_with_options
write_with_options(v, opts) == write_internal(v, opts, 0)

\* Value::to_string_with_options
value_to_string_with_options(v, opts) == write_with_options(v, opts)

-----------------------------------------------------------------------------
(* Decimal magnitudes: sequences of digits 0..9, most significant first *)

RECURSIVE StripLeadingZeros(_)
StripLeadingZeros(digs) ==
    IF Len(digs) > 1 /\ Head(digs) = 0 THEN StripLeadingZeros(Tail(digs)) ELSE digs

\* a <= b for canonical magnitudes
RECURSIVE DecLeqSameLen(_, _)
DecLeqSameLen(a, b) ==
    IF a = <<>> THEN TRUE
    ELSE IF Head(a) # Head(b) THEN Head(a) < Head(b)
    ELSE DecLeqSameLen(Tail(a), Tail(b))

DecLeq(a, b) ==
    IF Len(a) # Len(b) THEN Len(a) < Len(b) ELSE DecLeqSameLen(a, b)

\* digs * m + add, for 0 <= add and small m
RECURSIVE DecMulAddRev(_, _, _)
DecMulAddRev(rev, m, carry) ==
    IF rev = <<>> THEN
        IF carry = 0 THEN <<>> ELSE <<carry % 10>> \o DecMulAddRev(<<>>, m, carry \div 10)
    ELSE LET t == Head(rev) * m + carry
         IN <<t % 10>> \o DecMulAddRev(Tail(rev), m, t \div 10)

Reverse(s) == [i \in 1..Len(s) |-> s[Len(s) + 1 - i]]

DecMulAdd(digs, m, add) ==
    StripLeadingZeros(Reverse(DecMulAddRev(Reverse(digs), m, add)))

\* i64::MAX and -(i64::MIN) as magnitudes
I64MaxMag == <<9, 2, 2, 3, 3, 7, 2, 0, 3, 6, 8, 5, 4, 7, 7, 5, 8, 0, 7>>
I64MinMag == <<9, 2, 2, 3, 3, 7, 2, 0, 3, 6, 8, 5, 4, 7, 7, 5, 8, 0, 8>>
\* i128::MAX
I128MaxMag ==
    <<1, 7, 0, 1, 4, 1, 1, 8, 3, 4, 6, 0, 4, 6, 9, 2, 3, 1, 7, 3,
      1, 6, 8, 7, 3, 0, 3, 7, 1, 5, 8, 8, 4, 1, 0, 5, 7, 2, 7>>

-----------------------------------------------------------------------------
(* Parser: src/parser.rs.  A cursor is (input, position); position is a    *)
(* byte offset from 0, so the byte under the cursor is input[position+1].   *)
(* Every parse function returns POk(v, position') or an Error.              *)

POk(v, pos) == [ok |-> TRUE, v |-> v, pos |-> pos]

\* the ? operator: an Err returns from the enclosing function, an Ok value goes on
Try(r, K(_)) == IF r.ok THEN K(r) ELSE r

\* let v = ...; the rest of the block sees the value once computed
Let(v, K(_)) == K(v)

\* Parser::is_eof
is_eof(input, pos) == pos >= Len(input)

\* Parser::peek_byte, with -1 for None
peek_byte(input, pos) == IF pos < Len(input) THEN input[pos + 1] ELSE -1

\* Parser::peek_char: the char decoded at the cursor and its len_utf8; ch = -1 for None
peek_char(input, pos) ==
    IF pos >= Len(input) THEN [ch |-> -1, len |-> 0]
    ELSE LET b == input[pos + 1]
         IN IF b < 128 THEN [ch |-> b, len |-> 1]
            ELSE IF b < 224 THEN
                [ch |-> (b - 192) * 64 + (input[pos + 2] - 128), len |-> 2]
            ELSE IF b < 240 THEN
                [ch |-> (b - 224) * 4096 + (input[pos + 2] - 128) * 64
                        + (input[pos + 3] - 128), len |-> 3]
            ELSE [ch |-> (b - 240) * 262144 + (input[pos + 2] - 128) * 4096
                         + (input[pos + 3] - 128) * 64 + (input[pos + 4] - 128),
                  len |-> 4]

\* Parser::starts_with
starts_with(input, pos, token) ==
    /\ pos + Len(token) <= Len(input)
    /\ SubSeq(input, pos + 1, pos + Len(token)) = token

\* str::find("*/") on input[pos..]: the offset of the first match, or -1
RECURSIVE find_block_end(_, _, _)
find_block_end(input, pos, idx) ==
    IF pos + idx + 2 > Len(input) THEN -1
    ELSE IF input[pos + idx + 1] = 42 /\ input[pos + idx + 2] = 47 THEN idx
    ELSE find_block_end(input, pos, idx + 1)

\* while let Some(c) = self.next_char() { if c == '\n' { break; } }
RECURSIVE skip_line_comment(_, _)
skip_line_comment(input, pos) ==
    LET c == peek_char(input, pos)
    IN IF c.ch = -1 THEN pos
       ELSE IF c.ch = 10 THEN pos + c.len
       ELSE skip_line_comment(input, pos + c.len)

unterminated_at_comment_start(pos) ==
    ErrorWithPosition("unterminated block comment", pos - 2)

\* the error of an unterminated block comment; pos is the cursor after "/*"
unterminated_block_comment(pos) ==
    ErrorWithPosition("unterminated block comment", pos)

\* Parser::skip_ws
RECURSIVE skip_ws(_, _)
skip_ws(input, pos) ==
    LET c == peek_char(input, pos)
    IN IF c.ch = -1 THEN POk(TRUE, pos)
       ELSE IF is_whitespace(c.ch) THEN skip_ws(input, pos + c.len)
       ELSE IF c.ch = 47 /\ starts_with(input, pos, <<47, 47>>) THEN
            skip_ws(input, skip_line_comment(input, pos + 2))
       ELSE IF c.ch = 47 /\ starts_with(input, pos, <<47, 42>>) THEN
            LET idx == find_block_end(input, pos + 2, 0)
            IN IF idx >= 0 THEN skip_ws(input, pos + 2 + idx + 2)
               ELSE unterminated_block_comment(pos + 2)
       ELSE POk(TRUE, pos)

\* Parser::skip_inline_ws
RECURSIVE skip_inline_ws(_, _)
skip_inline_ws(input, pos) ==
    LET c == peek_char(input, pos)
    IN IF c.ch # -1 /\ is_whitespace(c.ch) THEN skip_inline_ws(input, pos + c.len)
       ELSE pos

\* consume_const_hint: is_hint for a bare "const" ending at next_pos
bare_const_is_hint(input, next_pos) ==
    LET c == peek_char(input, next_pos)
    IN \/ c.ch = -1
       \/ is_whitespace(c.ch)
       \/ c.ch = 91
       \/ c.ch = 37

consume_const_hint_once(input, pos) ==
    LET p == skip_inline_ws(input, pos)
    IN IF starts_with(input, p, B(<<"(", "c", "o", "n", "s", "t", ")">>)) THEN p + 7
       ELSE IF /\ starts_with(input, p, B(<<"c", "o", "n", "s", "t">>))
               /\ bare_const_is_hint(input, p + 5) THEN p + 5
       ELSE p

\* Parser::consume_const_hint
RECURSIVE consume_const_hint(_, _)
consume_const_hint(input, pos) ==
    LET p == skip_inline_ws(input, pos)
    IN IF starts_with(input, p, B(<<"(", "c", "o", "n", "s", "t", ")">>)) THEN
            consume_const_hint(input, p + 7)
       ELSE IF /\ starts_with(input, p, B(<<"c", "o", "n", "s", "t">>))
               /\ bare_const_is_hint(input, p + 5) THEN
            consume_const_hint(input, p + 5)
       ELSE p

\* hex_value, with -1 for None
hex_value(byte) ==
    IF byte >= 48 /\ byte <= 57 THEN byte - 48
    ELSE IF byte >= 97 /\ byte <= 102 THEN byte - 97 + 10
    ELSE IF byte >= 65 /\ byte <= 70 THEN byte - 65 + 10
    ELSE -1

is_ascii_digit(byte) == byte >= 48 /\ byte <= 57
is_ascii_alphabetic(byte) == (byte >= 65 /\ byte <= 90) \/ (byte >= 97 /\ byte <= 122)
is_ident_start(byte) == byte = 95 \/ is_ascii_alphabetic(byte)
is_ident_continue(byte) == byte = 95 \/ is_ascii_alphabetic(byte) \/ is_ascii_digit(byte)

\* Parser::consume_digits with the predicate given as a set of bytes
RECURSIVE consume_while(_, _, _)
consume_while(input, pos, accepted) ==
    IF pos < Len(input) /\ input[pos + 1] \in accepted
    THEN consume_while(input, pos + 1, accepted)
    ELSE pos

AsciiDigits == 48..57
HexDigits == (48..57) \cup (97..102) \cup (65..70)
IdentContinue == {95} \cup (48..57) \cup (65..90) \cup (97..122)

\* Parser::parse_identifier: position after the identifier, or -1 for None
parse_identifier(input, pos) ==
    IF pos < Len(input) /\ is_ident_start(input[pos + 1])
    THEN consume_while(input, pos + 1, IdentContinue)
    ELSE -1

\* Parser::read_hex_digits
RECURSIVE read_hex_digits(_, _, _, _)
read_hex_digits(input, pos, count, acc) ==
    IF count = 0 THEN POk(acc, pos)
    ELSE IF pos >= Len(input) THEN ErrorWithPosition("unexpected end of input", pos)
    ELSE IF hex_value(input[pos + 1]) = -1 THEN ErrorWithPosition("invalid hex digit", pos)
    ELSE read_hex_digits(input, pos + 1, count - 1, acc * 16 + hex_value(input[pos + 1]))

\* char::from_u32: every code below 0x110000 but the surrogates
is_scalar_value(code) == code < 55296 \/ (code > 57343 /\ code < 1114112)

\* Parser::parse_escape; pos is the cursor after the backslash
parse_escape(input, pos) ==
    Let(peek_char(input, pos), LAMBDA c :
    Let(pos + c.len, LAMBDA after :
    IF c.ch = -1 THEN ErrorWithPosition("unterminated escape", pos)
    ELSE IF c.ch = 110 THEN POk(10, after)
    ELSE IF c.ch = 114 THEN POk(13, after)
    ELSE IF c.ch = 116 THEN POk(9, after)
    ELSE IF c.ch = 98 THEN POk(8, after)
    ELSE IF c.ch = 102 THEN POk(12, after)
    ELSE IF c.ch = 48 THEN POk(0, after)
    ELSE IF c.ch = 120 THEN
        Try(read_hex_digits(input, after, 2, 0), LAMBDA h :
        IF is_scalar_value(h.v) THEN h
        ELSE ErrorWithPosition("invalid hex escape", h.pos))
    ELSE IF c.ch = 117 THEN
        Try(read_hex_digits(input, after, 4, 0), LAMBDA h :
        IF is_scalar_value(h.v) THEN h
        ELSE ErrorWithPosition("invalid unicode escape", h.pos))
    ELSE POk(c.ch, after)))

\* Parser::parse_string, the loop; pos is the cursor after the opening quote
RECURSIVE parse_string_loop(_, _, _, _)
parse_string_loop(input, pos, quote, output) ==
    Let(peek_char(input, pos), LAMBDA c :
    IF c.ch = -1 THEN ErrorWithPosition("unterminated string", pos)
    ELSE IF c.ch = quote THEN POk(output, pos + c.len)
    ELSE IF c.ch = 92 THEN
        Try(parse_escape(input, pos + c.len), LAMBDA e :
        parse_string_loop(input, e.pos, quote, Append(output, e.v)))
    ELSE parse_string_loop(input, pos + c.len, quote, Append(output, c.ch)))

\* Parser::parse_string
parse_string(input, pos) ==
    IF pos >= Len(input) THEN ErrorWithPosition("unexpected end of input", pos)
    ELSE parse_string_loop(input, pos + 1, input[pos + 1], <<>>)

read_octet_digit_after(input, pos) ==
    IF pos >= Len(input) THEN ErrorWithPosition("unexpected end of input", pos)
    ELSE IF hex_value(input[pos + 1]) # -1 THEN POk(hex_value(input[pos + 1]), pos + 1)
    ELSE ErrorWithPosition("invalid octet digit", pos + 1)

\* Parser::read_octet_digit
read_octet_digit(input, pos) ==
    IF pos >= Len(input) THEN ErrorWithPosition("unexpected end of input", pos)
    ELSE IF hex_value(input[pos + 1]) # -1 THEN POk(hex_value(input[pos + 1]), pos + 1)
    ELSE ErrorWithPosition("invalid octet digit", pos)

octet_byte_low_first(high, low) == low * 16 + high

\* (high << 4) | low of parse_octet
octet_byte(high, low) == high * 16 + low

\* Parser::parse_octet, the loop
RECURSIVE parse_octet_loop(_, _, _)
parse_octet_loop(input, pos, bytes) ==
    Let(skip_inline_ws(input, pos), LAMBDA p :
    IF starts_with(input, p, <<37, 62>>) THEN POk(Octet(bytes), p + 2)
    ELSE Try(read_octet_digit(input, p), LAMBDA high :
         Try(read_octet_digit(input, high.pos), LAMBDA low :
         parse_octet_loop(input, low.pos, Append(bytes, octet_byte(high.v, low.v))))))

\* Parser::parse_octet
parse_octet(input, pos) ==
    IF starts_with(input, pos, <<60, 37>>) THEN parse_octet_loop(input, pos + 2, <<>>)
    ELSE ErrorWithPosition("expected '<%'", pos)

\* Parser::parse_literal
parse_literal(input, pos) ==
    IF starts_with(input, pos, B(<<"t", "r", "u", "e">>)) THEN POk(Bool(TRUE), pos + 4)
    ELSE IF starts_with(input, pos, B(<<"f", "a", "l", "s", "e">>)) THEN
        POk(Bool(FALSE), pos + 5)
    ELSE IF starts_with(input, pos, B(<<"n", "u", "l", "l">>)) THEN POk(Null, pos + 4)
    ELSE IF starts_with(input, pos, B(<<"v", "o", "i", "d">>)) THEN POk(Void, pos + 4)
    ELSE IF starts_with(input, pos, B(<<"N", "a", "N">>)) THEN POk(Real(NaN), pos + 3)
    ELSE IF starts_with(input, pos, B(<<"I", "n", "f", "i", "n", "i", "t", "y">>)) THEN
        POk(Real(Infinity(FALSE)), pos + 8)
    ELSE ErrorWithPosition("unknown literal", pos)

\* digits of input[from..to) as numbers 0..9
DigitsOf(input, from, to) == [i \in 1..(to - from) |-> input[from + i] - 48]

RECURSIVE StripTrailingZeros(_)
StripTrailingZeros(digs) ==
    IF Len(digs) > 1 /\ digs[Len(digs)] = 0
    THEN StripTrailingZeros(SubSeq(digs, 1, Len(digs) - 1))
    ELSE digs

RECURSIVE DigitsToNat(_, _)
DigitsToNat(digs, acc) ==
    IF digs = <<>> THEN acc ELSE DigitsToNat(Tail(digs), acc * 10 + Head(digs))

\* str::parse::<i64>: an optional sign and at least one digit, in range
str_parse_i64(slice) ==
    LET neg == slice # <<>> /\ slice[1] = 45
        signed == slice # <<>> /\ slice[1] \in {43, 45}
        from == IF signed THEN 1 ELSE 0
        to == consume_while(slice, from, AsciiDigits)
        mag == StripLeadingZeros(DigitsOf(slice, from, to))
    IN IF to = from \/ to # Len(slice) THEN ErrorNew("invalid digit found in string")
       ELSE IF neg /\ ~DecLeq(mag, I64MinMag) THEN
            ErrorNew("number too small to fit in target type")
       ELSE IF ~neg /\ ~DecLeq(mag, I64MaxMag) THEN
            ErrorNew("number too large to fit in target type")
       ELSE Ok(I64(neg /\ mag # <<0>>, mag))

\* str::parse::<f64> on [sign] digits* ['.' digits*] [('e'|'E') [sign] digits+] with a
\* digit in the mantissa.  The decimal is kept exactly: the literals of the model have
\* few significant digits and small exponents, where f64 rounding does not interfere.
str_parse_f64(slice) ==
    LET neg == slice # <<>> /\ slice[1] = 45
        from == IF slice # <<>> /\ slice[1] \in {43, 45} THEN 1 ELSE 0
        intEnd == consume_while(slice, from, AsciiDigits)
        hasDot == peek_byte(slice, intEnd) = 46
        fracStart == IF hasDot THEN intEnd + 1 ELSE intEnd
        fracEnd == consume_while(slice, fracStart, AsciiDigits)
        hasExp == peek_byte(slice, fracEnd) \in {101, 69}
        expNeg == hasExp /\ peek_byte(slice, fracEnd + 1) = 45
        expStart == IF hasExp
                    THEN IF peek_byte(slice, fracEnd + 1) \in {43, 45}
                         THEN fracEnd + 2 ELSE fracEnd + 1
                    ELSE fracEnd
        expEnd == consume_while(slice, expStart, AsciiDigits)
        expMag == DigitsToNat(DigitsOf(slice, expStart, expEnd), 0)
        expVal == IF expNeg THEN -expMag ELSE expMag
        mantissa == DigitsOf(slice, from, intEnd) \o DigitsOf(slice, fracStart, fracEnd)
        lead == StripLeadingZeros(mantissa)
        digs == StripTrailingZeros(lead)
        exp == expVal - (fracEnd - fracStart) + (Len(lead) - Len(digs))
    IN IF mantissa = <<>> \/ expEnd # Len(slice) \/ (hasExp /\ expEnd = expStart)
       THEN ErrorNew("invalid float literal")
       ELSE IF digs = <<0>> THEN Ok(Finite(neg, <<0>>, 0))
       ELSE Ok(Finite(neg, digs, exp))

\* i128::from_str_radix(digits, 16): the magnitude, or <<>> on overflow
RECURSIVE from_str_radix_16(_, _)
from_str_radix_16(digits, acc) ==
    IF digits = <<>> THEN acc
    ELSE LET next == DecMulAdd(acc, 16, hex_value(Head(digits)))
         IN IF ~DecLeq(next, I128MaxMag) THEN <<>>
            ELSE from_str_radix_16(Tail(digits), next)

parse_hex_number_wrapping(input, start, negative, pos) ==
    LET end == consume_while(input, pos, HexDigits)
        unsigned == from_str_radix_16(SubSeq(input, pos + 1, end), <<0>>)
    IN IF end = pos THEN ErrorWithPosition("expected hex digits", end)
       ELSE IF unsigned = <<>> THEN ErrorWithPosition("invalid hex number", pos)
       ELSE IF ~DecLeq(unsigned, IF negative THEN I64MinMag ELSE I64MaxMag) THEN
            POk(Integer(I64(~negative, I64MinMag)), end)
       ELSE POk(Integer(I64(negative /\ unsigned # <<0>>, unsigned)), end)

\* Parser::parse_number, the hex branch; pos is the cursor after "0x"
parse_hex_number(input, start, negative, pos) ==
    LET end == consume_while(input, pos, HexDigits)
        unsigned == from_str_radix_16(SubSeq(input, pos + 1, end), <<0>>)
    IN IF end = pos THEN ErrorWithPosition("expected hex digits", end)
       ELSE IF unsigned = <<>> THEN ErrorWithPosition("invalid hex number", pos)
       ELSE IF ~DecLeq(unsigned, IF negative THEN I64MinMag ELSE I64MaxMag) THEN
            ErrorWithPosition("integer overflow", start)
       ELSE POk(Integer(I64(negative /\ unsigned # <<0>>, unsigned)), end)

parse_decimal_slice_no_fallback(input, start, end, is_float) ==
    Let(SubSeq(input, start + 1, end), LAMBDA slice :
    Let(str_parse_f64(slice), LAMBDA asFloat :
    IF is_float THEN
        IF asFloat.ok THEN POk(Real(asFloat.v), end)
        ELSE ErrorWithPosition("invalid number", start)
    ELSE Let(str_parse_i64(slice), LAMBDA asInt :
         IF asInt.ok THEN POk(Integer(asInt.v), end)
         ELSE ErrorWithPosition("invalid number", start))))

\* Parser::parse_number, the decimal branch from the collected slice on
parse_decimal_slice(input, start, end, is_float) ==
    Let(SubSeq(input, start + 1, end), LAMBDA slice :
    Let(str_parse_f64(slice), LAMBDA asFloat :
    IF is_float THEN
        IF asFloat.ok THEN POk(Real(asFloat.v), end)
        ELSE ErrorWithPosition("invalid number", start)
    ELSE Let(str_parse_i64(slice), LAMBDA asInt :
         IF asInt.ok THEN POk(Integer(asInt.v), end)
         ELSE IF asFloat.ok THEN POk(Real(asFloat.v), end)
         ELSE ErrorWithPosition("invalid number", start))))

\* Parser::parse_number, the decimal branch; pos is the cursor after the sign
parse_decimal_number(input, start, pos) ==
    Let(consume_while(input, pos, AsciiDigits), LAMBDA intEnd :
    Let(peek_byte(input, intEnd) = 46, LAMBDA hasDot :
    Let(IF hasDot THEN consume_while(input, intEnd + 1, AsciiDigits) ELSE intEnd,
        LAMBDA fracEnd :
    Let(peek_byte(input, fracEnd) \in {101, 69}, LAMBDA hasExp :
    Let(IF hasExp
        THEN IF peek_byte(input, fracEnd + 1) \in {43, 45}
             THEN fracEnd + 2 ELSE fracEnd + 1
        ELSE fracEnd, LAMBDA expStart :
    Let(consume_while(input, expStart, AsciiDigits), LAMBDA end :
    IF hasExp /\ end = expStart THEN ErrorWithPosition("expected exponent digits", end)
    ELSE IF ~(intEnd > pos \/ (hasDot /\ fracEnd > intEnd + 1)) THEN
        ErrorWithPosition("expected number", start)
    ELSE parse_decimal_slice(input, start, end, hasDot \/ hasExp)))))))

\* Parser::parse_number
parse_number(input, pos) ==
    IF starts_with(input, pos, B(<<"-", "I", "n", "f", "i", "n", "i", "t", "y">>)) THEN
        POk(Real(Infinity(TRUE)), pos + 9)
    ELSE IF starts_with(input, pos, B(<<"+", "I", "n", "f", "i", "n", "i", "t", "y">>)) THEN
        POk(Real(Infinity(FALSE)), pos + 9)
    ELSE IF \/ starts_with(input, pos, B(<<"+", "N", "a", "N">>))
            \/ starts_with(input, pos, B(<<"-", "N", "a", "N">>)) THEN
        POk(Real(NaN), pos + 4)
    ELSE LET negative == peek_byte(input, pos) = 45
             p == IF peek_byte(input, pos) \in {43, 45} THEN pos + 1 ELSE pos
         IN IF starts_with(input, p, <<48, 120>>) \/ starts_with(input, p, <<48, 88>>)
            THEN parse_hex_number(input, pos, negative, p + 2)
            ELSE parse_decimal_number(input, pos, p)

IndexMapInsert_keep_first(entries, key, v) ==
    IF \E i \in 1..Len(entries) : entries[i].key = key THEN entries
    ELSE Append(entries, [key |-> key, value |-> v])

\* IndexMap::insert: a new key goes last, an existing key keeps its place and
\* gets the new value
IndexMapInsert(entries, key, v) ==
    IF \E i \in 1..Len(entries) : entries[i].key = key
    THEN [i \in 1..Len(entries) |->
            IF entries[i].key = key THEN [key |-> key, value |-> v] ELSE entries[i]]
    ELSE Append(entries, [key |-> key, value |-> v])

\* Parser::parse_dict_key
parse_dict_key(input, pos) ==
    IF peek_byte(input, pos) \in {34, 39} THEN parse_string(input, pos)
    ELSE LET end == parse_identifier(input, pos)
         IN IF end = -1 THEN ErrorWithPosition("expected dictionary key", pos)
            ELSE POk([i \in 1..(end - pos) |-> input[pos + i]], end)

RECURSIVE parse_value(_, _)
RECURSIVE parse_value_at(_, _, _)
RECURSIVE parse_array_loop(_, _, _)
RECURSIVE parse_dictionary_loop(_, _, _)

\* Parser::parse_array, the loop
parse_array_loop(input, pos, items) ==
    Try(skip_ws(input, pos), LAMBDA w :
    IF peek_byte(input, w.pos) = 93 THEN POk(Array(items), w.pos + 1)
    ELSE Try(parse_value(input, w.pos), LAMBDA item :
         Try(skip_ws(input, item.pos), LAMBDA w2 :
         IF peek_byte(input, w2.pos) = 44 THEN
            parse_array_loop(input, w2.pos + 1, Append(items, item.v))
         ELSE IF peek_byte(input, w2.pos) = 93 THEN
            POk(Array(Append(items, item.v)), w2.pos + 1)
         ELSE ErrorWithPosition("expected ',' or ']'", w2.pos))))

\* Parser::parse_array
parse_array(input, pos) ==
    IF peek_byte(input, pos) = 91 THEN parse_array_loop(input, pos + 1, <<>>)
    ELSE ErrorWithPosition("expected '['", pos)

dict_separator_arrow_only(input, pos) ==
    IF starts_with(input, pos, <<61, 62>>) THEN pos + 2
    ELSE -1

\* Parser::parse_dictionary: the cursor after "=>" or ":", or -1
dict_separator(input, pos) ==
    IF starts_with(input, pos, <<61, 62>>) THEN pos + 2
    ELSE IF peek_byte(input, pos) = 58 THEN pos + 1
    ELSE -1

\* Parser::parse_dictionary, the loop
parse_dictionary_loop(input, pos, entries) ==
    Try(skip_ws(input, pos), LAMBDA w :
    IF peek_byte(input, w.pos) = 93 THEN POk(Dictionary(entries), w.pos + 1)
    ELSE Try(parse_dict_key(input, w.pos), LAMBDA key :
         Try(skip_ws(input, key.pos), LAMBDA w2 :
         Let(dict_separator(input, w2.pos), LAMBDA sep :
         IF sep = -1 THEN ErrorWithPosition("expected '=>' after key", w2.pos)
         ELSE Try(parse_value(input, sep), LAMBDA item :
              Try(skip_ws(input, item.pos), LAMBDA w3 :
              Let(IndexMapInsert(entries, key.v, item.v), LAMBDA inserted :
              IF peek_byte(input, w3.pos) = 44 THEN
                 parse_dictionary_loop(input, w3.pos + 1, inserted)
              ELSE IF peek_byte(input, w3.pos) = 93 THEN
                 POk(Dictionary(inserted), w3.pos + 1)
              ELSE ErrorWithPosition("expected ',' or ']'", w3.pos))))))))

\* Parser::parse_dictionary
parse_dictionary(input, pos) ==
    IF peek_byte(input, pos) # 37 THEN ErrorWithPosition("expected '%'", pos)
    ELSE Try(skip_ws(input, pos + 1), LAMBDA w :
         IF peek_byte(input, w.pos) # 91 THEN ErrorWithPosition("expected '['", w.pos)
         ELSE parse_dictionary_loop(input, w.pos + 1, <<>>))

\* Parser::parse_value, the dispatch on the first byte of the value
parse_value_at(input, pos, byte) ==
    IF byte = 91 THEN parse_array(input, pos)
    ELSE IF byte = 37 THEN parse_dictionary(input, pos)
    ELSE IF byte \in {34, 39} THEN
        Try(parse_string(input, pos), LAMBDA str : POk(String(str.v), str.pos))
    ELSE IF byte = 60 /\ starts_with(input, pos, <<60, 37>>) THEN parse_octet(input, pos)
    ELSE IF byte \in {116, 102, 110, 118, 73, 78} THEN parse_literal(input, pos)
    ELSE IF byte \in {43, 45} \/ is_ascii_digit(byte) THEN parse_number(input, pos)
    ELSE IF byte # -1 THEN ErrorWithPosition("unexpected token", pos)
    ELSE ErrorWithPosition("unexpected end of input", pos)

\* Parser::parse_value
parse_value(input, pos) ==
    Try(skip_ws(input, pos), LAMBDA w :
    Try(skip_ws(input, consume_const_hint(input, w.pos)), LAMBDA w2 :
    parse_value_at(input, w2.pos, peek_byte(input, w2.pos))))

trailing_ignored(input, pos) == TRUE

\* parse_str: if parser.is_eof()
trailing_is_eof(input, pos) == is_eof(input, pos)

\* parser::parse_str
parse_str(input) ==
    Try(skip_ws(input, 0), LAMBDA w :
    Try(parse_value(input, w.pos), LAMBDA val :
    Try(skip_ws(input, val.pos), LAMBDA w2 :
    IF trailing_is_eof(input, w2.pos) THEN Ok(val.v)
    ELSE ErrorWithPosition("unexpected trailing characters", w2.pos))))

\* de::parse_value
de_parse_value(input) == parse_str(input)

-----------------------------------------------------------------------------
(* Bounds and the values the caller builds *)

MaxDepth == 2
MaxItems == 2
MaxIndent == 2

IntegerSamples ==
    { I64(FALSE, <<0>>), I64(FALSE, <<1>>), I64(TRUE, <<1, 2>>),
      I64(FALSE, I64MaxMag), I64(TRUE, I64MinMag) }

\* 0.0, -0.0, 1.0, 300.0, 3e10, 3e20, -10.0, 1.5, -0.25, 0.001, 1e-7 and the specials
RealSamples ==
    { Finite(FALSE, <<0>>, 0), Finite(TRUE, <<0>>, 0), Finite(FALSE, <<1>>, 0),
      Finite(FALSE, <<3>>, 2), Finite(FALSE, <<3>>, 10), Finite(FALSE, <<3>>, 20),
      Finite(TRUE, <<1>>, 1), Finite(FALSE, <<1, 5>>, -1), Finite(TRUE, <<2, 5>>, -2),
      Finite(FALSE, <<1>>, -3), Finite(FALSE, <<1>>, -7),
      Finite(FALSE, <<1, 2, 0, 5>>, -1),
      Infinity(FALSE), Infinity(TRUE), NaN }

\* quote, apostrophe, backslash, the short escapes, other controls (NUL, US, DEL,
\* NEL), Latin-1, CJK and astral characters, and text that looks like syntax
StringSamples ==
    { <<>>, <<97>>, <<34>>, <<39>>, <<92>>, <<10>>, <<13>>, <<9>>, <<8>>, <<12>>,
      <<0>>, <<31>>, <<127>>, <<133>>, <<160>>, <<233>>, <<25991>>, <<128512>>,
      <<92, 110>>, <<97, 34, 98>>, <<47, 42>>, <<47, 47>>, <<93, 44>>,
      B(<<"(", "c", "o", "n", "s", "t", ")", " ", "[">>),
      B(<<"k", "i", "r", "i", "k", "i", "r", "i">>) }

OctetSamples == { <<>>, <<0>>, <<255, 16>>, <<171, 205, 239>> }

KeySamples == { <<97>>, <<107, 34>>, <<>> }

Leaves ==
    {Void, Null, Bool(TRUE), Bool(FALSE)}
    \cup {Integer(n) : n \in IntegerSamples}
    \cup {Real(x) : x \in RealSamples}
    \cup {String(str) : str \in StringSamples}
    \cup {Octet(b) : b \in OctetSamples}

\* the children of the systematically enumerated containers
Kids == { Integer(I64(FALSE, <<1>>)), String(<<97>>) }

SeqsUpTo(S, n) == UNION { [1..k -> S] : k \in 0..n }

IsInjective(f) == \A i, j \in DOMAIN f : i # j => f[i] # f[j]

\* dictionaries: up to MaxItems entries with distinct keys, in every order
DictsOver(vals, n) ==
    { Dictionary([i \in 1..Len(ks) |-> [key |-> ks[i], value |-> vs[i]]]) :
        <<ks, vs>> \in UNION { {f \in [1..k -> KeySamples] : IsInjective(f)}
                               \X [1..k -> vals] : k \in 0..n } }

FlatContainers ==
    {Array(items) : items \in SeqsUpTo(Kids, MaxItems)}
    \cup DictsOver(Kids, MaxItems)

\* a container around one nested container, alone or beside a scalar
Wraps(c) ==
    { Array(<<c>>),
      Array(<<Integer(I64(FALSE, <<1>>)), c>>),
      Dictionary(<<[key |-> <<97>>, value |-> c]>>),
      Dictionary(<<[key |-> <<97>>, value |-> c],
                   [key |-> <<107, 34>>, value |-> Bool(TRUE)]>>) }

RECURSIVE Nested(_)
Nested(d) ==
    IF d <= 1 THEN FlatContainers
    ELSE UNION { Wraps(c) : c \in Nested(d - 1) }

Values ==
    Leaves
    \cup {Array(<<leaf>>) : leaf \in Leaves}
    \cup {Dictionary(<<[key |-> <<97>>, value |-> leaf]>>) : leaf \in Leaves}
    \cup UNION { Nested(d) : d \in 1..MaxDepth }

OptionsSet ==
    { [const_hint |-> c, indent |-> i] :
        c \in BOOLEAN, i \in {None} \cup {Some(w) : w \in 0..MaxIndent} }

Idle == <<>>

-----------------------------------------------------------------------------
(* Spec: a caller renders a Value under some options and parses the text back *)

Init ==
    /\ value \in Values
    /\ options \in OptionsSet
    /\ text = <<>>
    /\ parsed = NoResult
    /\ doc = Idle
    /\ previous = NoResult
    /\ data = Idle
    /\ restored = NoResult
    /\ vec = NoResult
    /\ sink = Idle
    /\ pc = "new"
    /\ ser = Idle
    /\ de = Idle
    /\ calls = <<>>
    /\ parser = Idle

\* Value::to_string_with_options(&value, &options)
ToStringWithOptions ==
    /\ pc = "new"
    /\ text' = value_to_string_with_options(value, options)
    /\ pc' = "rendered"
    /\ UNCHANGED <<parser, ser, de, calls, value, options, parsed, doc, previous, data, restored, vec, sink>>

\* parse_value(&text)
ParseValue ==
    /\ pc = "rendered"
    /\ parsed' = de_parse_value(text)
    /\ pc' = "parsed"
    /\ UNCHANGED <<parser, ser, de, calls, value, options, text, doc, previous, data, restored, vec, sink>>

Next == ToStringWithOptions \/ ParseValue

Spec == Init /\ [][Next]_vars

-----------------------------------------------------------------------------
(* Claims about rendering and the round trip, under Spec *)

RECURSIVE HasNaN(_)
HasNaN(v) ==
    CASE v.tag = "Real" -> v.x.kind = "nan"
      [] v.tag = "Array" -> \E i \in 1..Len(v.items) : HasNaN(v.items[i])
      [] v.tag = "Dictionary" -> \E i \in 1..Len(v.entries) : HasNaN(v.entries[i].value)
      [] OTHER -> FALSE

RECURSIVE NestingDepth(_)
NestingDepth(v) ==
    LET kids == IF v.tag = "Array" THEN v.items
                ELSE IF v.tag = "Dictionary"
                THEN [i \in 1..Len(v.entries) |-> v.entries[i].value]
                ELSE <<>>
        RECURSIVE deepest(_)
        deepest(i) == IF i > Len(kids) THEN 0
                      ELSE LET a == NestingDepth(kids[i])
                               b == deepest(i + 1)
                           IN IF a > b THEN a ELSE b
    IN IF v.tag \in {"Array", "Dictionary"} THEN 1 + deepest(1) ELSE 0

\* C1: every Value tree without a Real NaN, rendered under any options (const_hint
\* on or off, compact or indented) and parsed back, parses successfully to a Value
\* equal to the original.
C1_RoundTrip ==
    (pc = "parsed" /\ ~HasNaN(value)) => (parsed.ok /\ ValueEq(parsed.v, value))

\* C1 witness: a nested dictionary-in-array was rendered indented with hints and
\* parsed back.
C1_Witness ==
    /\ pc = "parsed"
    /\ parsed.ok
    /\ NestingDepth(value) >= 2
    /\ options.const_hint
    /\ options.indent.some
    /\ \E i \in 1..Len(text) : text[i] = 34

\* the number of backslashes immediately before position i
RECURSIVE BackslashRun(_, _)
BackslashRun(t, i) ==
    IF i > 1 /\ t[i - 1] = 92 THEN 1 + BackslashRun(t, i - 1) ELSE 0

Indices(t) == [i \in 1..Len(t) |-> i]

\* the rendered text with the content of every string literal removed, so that
\* only the printer's own brackets, commas, hints and newlines remain: a quote
\* delimits a literal unless an odd number of backslashes precedes it, and a byte
\* is inside a literal when an odd number of delimiters precedes it
Skeleton(t) ==
    LET delims == {i \in 1..Len(t) : t[i] = 34 /\ BackslashRun(t, i) % 2 = 0}
        Keep(i) == i \in delims \/ Cardinality({j \in delims : j < i}) % 2 = 0
        kept == SelectSeq(Indices(t), Keep)
    IN [k \in 1..Len(kept) |-> t[kept[k]]]

CountByte(t, b) == Cardinality({i \in 1..Len(t) : t[i] = b})

RECURSIVE CountContainers(_)
CountContainers(v) ==
    LET kids == IF v.tag = "Array" THEN v.items
                ELSE IF v.tag = "Dictionary"
                THEN [i \in 1..Len(v.entries) |-> v.entries[i].value]
                ELSE <<>>
        RECURSIVE sum(_)
        sum(i) == IF i > Len(kids) THEN 0 ELSE CountContainers(kids[i]) + sum(i + 1)
    IN (IF v.tag \in {"Array", "Dictionary"} THEN 1 ELSE 0) + sum(1)

HintText == B(<<"(", "c", "o", "n", "s", "t", ")", " ">>)

\* C6: every Array and Dictionary, at any depth, is rendered with "(const) "
\* immediately before its opening "[" or "%[" exactly when const_hint is set, and
\* nothing else (no scalar) is rendered with that prefix.
C6_ConstPrefix ==
    pc # "new" =>
        LET t == Skeleton(text)
        IN /\ CountByte(t, 91) = CountContainers(value)
           /\ \A i \in 1..Len(t) :
                t[i] = 91 =>
                    LET open == IF i > 1 /\ t[i - 1] = 37 THEN i - 1 ELSE i
                    IN options.const_hint
                       <=> (open > 8 /\ SubSeq(t, open - 8, open - 1) = HintText)
           /\ \A i \in 1..Len(t) :
                t[i] = 40 =>
                    /\ starts_with(t, i - 1, HintText)
                    /\ \/ starts_with(t, i + 7, <<91>>)
                       \/ starts_with(t, i + 7, <<37, 91>>)

\* C6 witness: a nested container was rendered with const_hint set, and the text
\* begins with the hint.
C6_Witness ==
    /\ pc = "rendered"
    /\ options.const_hint
    /\ NestingDepth(value) >= 2
    /\ starts_with(text, 0, HintText)

\* C8: a Real renders as NaN, Infinity or -Infinity, and a finite Real with a zero
\* fractional part renders as its sign, its full decimal integer expansion (digits
\* only, no exponent) and ".0"; the five values of the rendering table render as
\* the table says.
C8_RealRendering ==
    (pc # "new" /\ value.tag = "Real") =>
        LET x == value.x
            n == Len(text)
            body == SubSeq(text, 1, n - 2)
            digits == IF x.neg THEN Tail(body) ELSE body
        IN /\ x.kind = "nan" => text = B(<<"N", "a", "N">>)
           /\ (x.kind = "inf" /\ ~x.neg) =>
                text = B(<<"I", "n", "f", "i", "n", "i", "t", "y">>)
           /\ (x.kind = "inf" /\ x.neg) =>
                text = B(<<"-", "I", "n", "f", "i", "n", "i", "t", "y">>)
           /\ (x.kind = "fin" /\ x.exp >= 0) =>
                /\ n >= 3
                /\ SubSeq(text, n - 1, n) = <<46, 48>>
                /\ x.neg <=> text[1] = 45
                /\ digits = DigitBytes(x.digs \o Repeat(0, x.exp))
           /\ x = Finite(FALSE, <<1>>, 0) => text = B(<<"1", ".", "0">>)
           /\ x = Finite(FALSE, <<3>>, 2) => text = B(<<"3", "0", "0", ".", "0">>)
           /\ x = Finite(FALSE, <<3>>, 10) =>
                text = B(<<"3", "0", "0", "0", "0", "0", "0", "0", "0", "0", "0",
                           ".", "0">>)
           /\ x = Finite(FALSE, <<3>>, 20) =>
                text = B(<<"3", "0", "0", "0", "0", "0", "0", "0", "0", "0", "0",
                           "0", "0", "0", "0", "0", "0", "0", "0", "0", "0",
                           ".", "0">>)
           /\ x = Finite(TRUE, <<1>>, 1) => text = B(<<"-", "1", "0", ".", "0">>)

\* C8 witness: 3e20 was rendered.
C8_Witness ==
    /\ pc = "rendered"
    /\ value = Real(Finite(FALSE, <<3>>, 20))
    /\ Len(text) = 23

SplitLines(t) ==
    LET IsNewline(i) == t[i] = 10
        nl == SelectSeq(Indices(t), IsNewline)
    IN [k \in 1..(Len(nl) + 1) |->
            SubSeq(t, IF k = 1 THEN 1 ELSE nl[k - 1] + 1,
                      IF k > Len(nl) THEN Len(t) ELSE nl[k] - 1)]

RECURSIVE LeadingSpaces(_)
LeadingSpaces(line) ==
    IF line # <<>> /\ Head(line) = 32 THEN 1 + LeadingSpaces(Tail(line)) ELSE 0

\* open brackets minus closing brackets in the lines before line i
DepthBefore(lines, i) ==
    LET At(b) == UNION { {<<k, j>> : j \in {j \in 1..Len(lines[k]) : lines[k][j] = b}} :
                         k \in 1..(i - 1) }
    IN Cardinality(At(91)) - Cardinality(At(93))

\* one line for a scalar; a non-empty container adds a line per element and one
\* for its closing bracket
RECURSIVE ExpectedLines(_)
ExpectedLines(v) ==
    LET kids == IF v.tag = "Array" THEN v.items
                ELSE IF v.tag = "Dictionary"
                THEN [i \in 1..Len(v.entries) |-> v.entries[i].value]
                ELSE <<>>
        RECURSIVE sum(_)
        sum(i) == IF i > Len(kids) THEN 0 ELSE (ExpectedLines(kids[i]) - 1) + sum(i + 1)
    IN 1 + (IF kids # <<>> THEN Len(kids) + 1 ELSE 0) + sum(1)

-----------------------------------------------------------------------------
(* ParseSpec: a caller composes a text and parses it, then inserts const hints  *)
(* in front of the value and parses again.                                      *)
(*   text = lead \o open \o hints \o core \o close \o good \o ending            *)
(* lead and good are whitespace and comments, open/close put the core at a      *)
(* nested value position, and the ending is what follows at the top level.      *)

MaxBlanks == 2
MaxHints == 2
MaxEntries == 3

Flatten(segments) ==
    LET RECURSIVE cat(_)
        cat(i) == IF i > Len(segments) THEN <<>> ELSE segments[i] \o cat(i + 1)
    IN cat(1)

\* a space, a newline, a no-break space (two bytes), a line comment with its
\* newline, a block comment, a block comment holding a slash and a star
BlankSegments ==
    { <<32>>, <<10>>, Utf8(160), B(<<"/", "/", "c">>) \o <<10>>,
      B(<<"/", "*", "c", "*", "/">>), B(<<"/", "*", "/", "*", "*", "/">>) }

Blanks == { Flatten(segs) : segs \in SeqsUpTo(BlankSegments, MaxBlanks) }

\* what follows the value and its blanks: nothing, a line comment running to the
\* end of input, an offending character, or a block comment that is never closed
Endings ==
    { [bytes |-> <<>>, class |-> "none"],
      [bytes |-> B(<<"/", "/", " ", "x">>), class |-> "comment"],
      [bytes |-> B(<<"x">>), class |-> "trailing"],
      [bytes |-> B(<<"]">>), class |-> "trailing"],
      [bytes |-> B(<<",">>), class |-> "trailing"],
      [bytes |-> B(<<"/">>), class |-> "trailing"],
      [bytes |-> B(<<"/", " ", "/", "/">>), class |-> "trailing"],
      [bytes |-> B(<<"*", "/">>), class |-> "trailing"],
      [bytes |-> B(<<"(", "c", "o", "n", "s", "t", ")">>), class |-> "trailing"],
      [bytes |-> Utf8(233), class |-> "trailing"],
      [bytes |-> B(<<"/", "*">>), class |-> "unterminated"],
      [bytes |-> B(<<"/", "*", " ", "c", " ", "*">>), class |-> "unterminated"] }

NoEnding == [bytes |-> <<>>, class |-> "none"]

\* complete value texts, one of each kind of literal
Cores ==
    { B(<<"1">>), B(<<"-", "1", ".", "5">>), B(<<"t", "r", "u", "e">>),
      B(<<"'", "a", "'">>), <<34, 97, 34>>,
      B(<<"[", "1", ",", "2", "]">>), B(<<"%", "[", "a", "=", ">", "1", "]">>),
      B(<<"<", "%", " ", "0", "a", " ", "%", ">">>),
      B(<<"(", "c", "o", "n", "s", "t", ")", " ", "[", "1", "]">>),
      B(<<"c", "o", "n", "s", "t", " ", "/", "*", "c", "*", "/", " ", "%", "[", "]">>) }

\* value positions: the top level, an array element (first or later), a
\* dictionary value after "=>" or ":"
Positions ==
    { [open |-> <<>>, close |-> <<>>],
      [open |-> B(<<"[">>), close |-> B(<<"]">>)],
      [open |-> B(<<"[", "0", ",", " ">>), close |-> B(<<",", "]">>)],
      [open |-> B(<<"%", "[", "k", " ", "=", ">">>), close |-> B(<<"]">>)],
      [open |-> B(<<"%", "[", "'", "k", "'", ":", " ">>), close |-> B(<<" ", "]">>)] }

TopLevel == [open |-> <<>>, close |-> <<>>]

\* a dictionary literal whose i-th entry has the i-th key and the value i; the
\* entries alternate between the quoted "=>" form and the identifier ":" form
DictEntryText(key, i, style) ==
    (IF (i + style) % 2 = 0 THEN <<34>> \o key \o <<34>> \o B(<<" ", "=", ">", " ">>)
     ELSE key \o B(<<":">>))
    \o <<48 + i>>

DictText(keys, style) ==
    LET RECURSIVE entries(_)
        entries(i) ==
            IF i > Len(keys) THEN <<>>
            ELSE DictEntryText(keys[i], i, style)
                 \o (IF i < Len(keys) \/ style = 1 THEN B(<<",", " ">>) ELSE <<>>)
                 \o entries(i + 1)
    IN B(<<"%", "[">>) \o entries(1) \o B(<<"]">>)

DictKeys == { B(<<"a">>), B(<<"b", "_", "2">>) }

Doc(lead, position, core, good, ending, keys) ==
    [lead |-> lead, open |-> position.open, hints |-> <<>>, core |-> core,
     close |-> position.close, good |-> good, ending |-> ending, keys |-> keys]

Docs ==
    { Doc(lead, TopLevel, core, good, ending, None) :
        lead \in {<<>>, <<32>>, B(<<"/", "*", "c", "*", "/", " ">>)},
        core \in Cores, good \in Blanks, ending \in Endings }
    \cup
    { Doc(lead, position, core, <<>>, NoEnding, None) :
        lead \in {<<>>, B(<<"/", "*", "c", "*", "/", " ">>)},
        position \in Positions, core \in Cores }
    \cup
    { Doc(<<>>, TopLevel, DictText(keys, style), <<>>, NoEnding, Some(keys)) :
        keys \in SeqsUpTo(DictKeys, MaxEntries), style \in {0, 1} }

\* a hint and what the caller writes after it
HintTokens ==
    { [token |-> B(<<"(", "c", "o", "n", "s", "t", ")">>), sep |-> <<>>],
      [token |-> B(<<"(", "c", "o", "n", "s", "t", ")">>), sep |-> <<32>>],
      [token |-> B(<<"c", "o", "n", "s", "t">>), sep |-> <<>>],
      [token |-> B(<<"c", "o", "n", "s", "t">>), sep |-> Utf8(160)],
      [token |-> B(<<"c", "o", "n", "s", "t">>), sep |-> <<10, 9>>] }

HintsText(hints) == Flatten([i \in 1..Len(hints) |-> hints[i].token \o hints[i].sep])

DocText(d) ==
    d.lead \o d.open \o HintsText(d.hints) \o d.core \o d.close \o d.good
    \o d.ending.bytes

ParseInit ==
    /\ doc \in Docs
    /\ text = DocText(doc)
    /\ parsed = NoResult
    /\ previous = NoResult
    /\ value = Void
    /\ options = DefaultOptions
    /\ data = Idle
    /\ restored = NoResult
    /\ vec = NoResult
    /\ sink = Idle
    /\ pc = "input"
    /\ ser = Idle
    /\ de = Idle
    /\ calls = <<>>
    /\ parser = Idle

\* parse_value(&text)
ParseInput ==
    /\ pc \in {"input", "hinted"}
    /\ parsed' = de_parse_value(text)
    /\ pc' = IF pc = "input" THEN "parsed" ELSE "reparsed"
    /\ UNCHANGED <<parser, ser, de, calls, value, options, text, doc, previous, data, restored, vec, sink>>

\* the caller inserts hints immediately before the value of a text that parsed
PrefixHints ==
    /\ pc = "parsed"
    /\ parsed.ok
    /\ doc.good = <<>>
    /\ doc.ending = NoEnding
    /\ doc.keys = None
    /\ \E hints \in SeqsUpTo(HintTokens, MaxHints) :
        /\ hints # <<>>
        /\ doc' = [doc EXCEPT !.hints = hints]
        /\ text' = DocText([doc EXCEPT !.hints = hints])
    /\ previous' = parsed
    /\ parsed' = NoResult
    /\ pc' = "hinted"
    /\ UNCHANGED <<parser, ser, de, calls, value, options, data, restored, vec, sink>>

ParseNext == ParseInput \/ PrefixHints

ParseSpec == ParseInit /\ [][ParseNext]_vars

-----------------------------------------------------------------------------
(* Claims on parse_value over composed texts *)

\* the offset of the first byte after the value and the blanks that follow it
EndingOffset(d) == Len(d.lead \o d.open \o HintsText(d.hints) \o d.core \o d.close \o d.good)

\* C3 (as amended): parse_value succeeds only when the rest of the input after the
\* top-level value is whitespace and comments; another trailing character fails
\* with 'unexpected trailing characters' at the offset of the first such
\* character, except that a "/*" that is never closed fails with 'unterminated
\* block comment' at the offset just after the "/*"; no Value is returned.
C3_TrailingCharacters ==
    (pc = "parsed" /\ ~doc.keys.some) =>
        CASE doc.ending.class \in {"none", "comment"} -> parsed.ok
          [] doc.ending.class = "trailing" ->
                parsed = ErrorWithPosition("unexpected trailing characters",
                                           EndingOffset(doc))
          [] doc.ending.class = "unterminated" ->
                parsed = ErrorWithPosition("unterminated block comment",
                                           EndingOffset(doc) + 2)

\* C3 witness: a value, blanks, then an offending character, and the parse failed
\* at that character.
C3_Witness ==
    /\ pc = "parsed"
    /\ doc.ending.class = "trailing"
    /\ doc.good # <<>>
    /\ ~parsed.ok
    /\ parsed.message = "unexpected trailing characters"
    /\ parsed.position = Some(EndingOffset(doc))

\* C3 as stated: whatever follows the value that is not whitespace or a comment
\* fails with 'unexpected trailing characters' at the offset of its first character.
C3_Original ==
    (pc = "parsed" /\ ~doc.keys.some /\ doc.ending.class \in {"trailing", "unterminated"}) =>
        parsed = ErrorWithPosition("unexpected trailing characters", EndingOffset(doc))

\* the keys of a dictionary text in the order of their first occurrence
FirstOccurrences(keys) ==
    LET First(i) == \A j \in 1..(i - 1) : keys[j] # keys[i]
        at == SelectSeq(Indices(keys), First)
    IN [n \in 1..Len(at) |-> keys[at[n]]]

\* the index of the last entry of the text with this key
LastOccurrence(keys, key) ==
    CHOOSE i \in 1..Len(keys) :
        keys[i] = key /\ \A j \in (i + 1)..Len(keys) : keys[j] # key

\* C5: parsing a dictionary literal yields a Dictionary with unique keys, in the
\* order of their first insertion reading left to right, each with the value of
\* its last occurrence in the text.
C5_DictionaryOrder ==
    (pc = "parsed" /\ doc.keys.some) =>
        /\ parsed.ok
        /\ parsed.v.tag = "Dictionary"
        /\ LET entries == parsed.v.entries
               keys == [i \in 1..Len(entries) |-> entries[i].key]
           IN /\ IsInjective(keys)
              /\ keys = FirstOccurrences(doc.keys.v)
              /\ \A i \in 1..Len(entries) :
                    entries[i].value =
                        Integer(I64(FALSE, <<LastOccurrence(doc.keys.v, keys[i])>>))

\* C5 witness: a key, another key, then the first key again, parsed to two entries.
C5_Witness ==
    /\ pc = "parsed"
    /\ doc.keys.some
    /\ Len(doc.keys.v) = 3
    /\ doc.keys.v[1] = doc.keys.v[3]
    /\ doc.keys.v[1] # doc.keys.v[2]
    /\ parsed.ok
    /\ Len(parsed.v.entries) = 2
    /\ parsed.v.entries[1].value = Integer(I64(FALSE, <<3>>))

\* every bare "const" of the inserted hints is immediately followed by a
\* whitespace character, "[" or "%"
HintsDelimited(d) ==
    \A i \in 1..Len(d.hints) :
        d.hints[i].token = B(<<"c", "o", "n", "s", "t">>) =>
            LET rest == d.hints[i].sep
                        \o HintsText(SubSeq(d.hints, i + 1, Len(d.hints)))
                        \o d.core
                c == peek_char(rest, 0).ch
            IN is_whitespace(c) \/ c \in {91, 37}

\* C7 (as amended): for every text that parses to a Value v, inserting before a
\* value (top level or nested) any number of hints, each '(const)' or a bare
\* 'const' that is immediately followed by whitespace, '[' or '%', with nothing
\* but whitespace between the hints and the value, parses to the same v.
C7_ConstHintsNoOp ==
    (pc = "reparsed" /\ HintsDelimited(doc)) => parsed = previous

\* C7 witness: two hints, one of them a bare const, in front of a nested value,
\* and the text parsed again.
C7_Witness ==
    /\ pc = "reparsed"
    /\ Len(doc.hints) = 2
    /\ doc.open # <<>>
    /\ \E i \in 1..2 : doc.hints[i].token = B(<<"c", "o", "n", "s", "t">>)
    /\ HintsDelimited(doc)
    /\ parsed.ok
    /\ parsed = previous

\* C7 as stated: any hints in front of the value leave the parsed Value unchanged.
C7_Original ==
    pc = "reparsed" => parsed = previous

-----------------------------------------------------------------------------
(* The bridges: src/ser.rs and src/de.rs.  A type that derives Serialize and   *)
(* Deserialize is described by its shape; a value of the type is a BOOLEAN, an  *)
(* integer (i32), a decimal magnitude (u64), a sequence of chars (String), a   *)
(* sequence of elements (Vec), the sequence of its field values in declared     *)
(* order (struct), or the index of its variant with the field values (enum),   *)
(* each under the name of its kind.                                            *)

TBool == [kind |-> "bool"]
TI32 == [kind |-> "i32"]
TU64 == [kind |-> "u64"]
TString == [kind |-> "String"]
TInt(width) == [kind |-> width]
TF64 == [kind |-> "f64"]
TChar == [kind |-> "char"]
TBytes == [kind |-> "bytes"]
TOption(elem) == [kind |-> "Option", elem |-> elem]
TUnit == [kind |-> "unit"]
TUnitStruct == [kind |-> "unit_struct"]
TMap(elem) == [kind |-> "Map", elem |-> elem]
TVec(elem) == [kind |-> "Vec", elem |-> elem]
Field(name, type) == [name |-> name, type |-> type]
TStruct(fields) == [kind |-> "struct", fields |-> fields]
Variant(name, shape, fields) == [name |-> name, shape |-> shape, fields |-> fields]
TEnum(variants) == [kind |-> "enum", variants |-> variants]

DBool(b) == [bool |-> b]
DI32(n) == [i32 |-> n]
DU64(n) == [u64 |-> n]
DString(s) == [string |-> s]
DI8(n) == [i8 |-> n]
DI16(n) == [i16 |-> n]
DI64(n) == [i64 |-> n]
DU8(n) == [u8 |-> n]
DU16(n) == [u16 |-> n]
DU32(n) == [u32 |-> n]
DF64(x) == [f64 |-> x]
DChar(c) == [char |-> c]
DBytes(b) == [bytes |-> b]
DOption(o) == [option |-> o]
DUnit == [unit |-> TRUE]
DMap(entries) == [map |-> entries]
DVec(items) == [vec |-> items]
DStruct(fields) == [struct |-> fields]
DEnum(variant, fields) == [variant |-> variant, fields |-> fields]

\* the decimal digits of a natural number
RECURSIVE NatDigits(_)
NatDigits(n) == IF n < 10 THEN <<n>> ELSE Append(NatDigits(n \div 10), n % 10)

\* v as i64 for an i32
i32_as_i64(v) ==
    IF v >= 0 THEN I64(FALSE, NatDigits(v))
    ELSE I64(TRUE, DecMulAdd(NatDigits(-(v + 1)), 1, 1))

\* u64::MAX
U64MaxMag == <<1, 8, 4, 4, 6, 7, 4, 4, 0, 7, 3, 7, 0, 9, 5, 5, 1, 6, 1, 5>>

\* the f64 nearest to an integer magnitude, in its shortest digits: a magnitude
\* of at most 15 significant digits is its own shortest form; 2^63 - 1 and 2^63
\* give 2^63 and 2^64 - 1 gives 2^64; no other magnitude is converted here
int_as_f64(neg, mag) ==
    Let(StripTrailingZeros(mag), LAMBDA digs :
    CASE Len(digs) <= 15 -> Finite(neg, digs, Len(mag) - Len(digs))
      [] mag \in {I64MaxMag, I64MinMag} ->
            Finite(neg, <<9, 2, 2, 3, 3, 7, 2, 0, 3, 6, 8, 5, 4, 7, 7, 6>>, 3)
      [] mag = U64MaxMag ->
            Finite(neg, <<1, 8, 4, 4, 6, 7, 4, 4, 0, 7, 3, 7, 0, 9, 5, 5, 2>>, 3))

\* v as f64 for a u64
u64_as_f64(v) == int_as_f64(FALSE, v)

\* v as f64 for an i64
i64_as_f64(v) == int_as_f64(v.neg, v.mag)

\* ValueSerializer::serialize_bool
serialize_bool(v) == Ok(Bool(v))

\* ValueSerializer::serialize_i32
serialize_i32(v) == Ok(Integer(i32_as_i64(v)))

\* ValueSerializer::serialize_i8, _i16, _u8, _u16 (v as i64 of a small integer),
\* serialize_u32 (v as i64 of a magnitude) and serialize_i64
serialize_int(width, x) ==
    CASE width = "i8" -> Ok(Integer(i32_as_i64(x.i8)))
      [] width = "i16" -> Ok(Integer(i32_as_i64(x.i16)))
      [] width = "u8" -> Ok(Integer(i32_as_i64(x.u8)))
      [] width = "u16" -> Ok(Integer(i32_as_i64(x.u16)))
      [] width = "u32" -> Ok(Integer(I64(FALSE, x.u32)))
      [] width = "i64" -> Ok(Integer(x.i64))

\* ValueSerializer::serialize_f64
serialize_f64(v) == Ok(Real(v))

\* the comparison with i64::MAX made strict
serialize_u64_strict(v) ==
    IF v # I64MaxMag /\ DecLeq(v, I64MaxMag) THEN Ok(Integer(I64(FALSE, v)))
    ELSE Ok(Real(u64_as_f64(v)))

\* ValueSerializer::serialize_u64
serialize_u64(v) ==
    IF DecLeq(v, I64MaxMag) THEN Ok(Integer(I64(FALSE, v)))
    ELSE Ok(Real(u64_as_f64(v)))

\* ValueSerializer::serialize_str
serialize_str(v) == Ok(String(v))

\* ValueSerializer::serialize_unit_variant
serialize_unit_variant(variant) == Ok(String(variant))

\* ValueSerializer::serialize_seq
serialize_seq(len) == Ok([elements |-> <<>>])

\* SeqSerializer::end
SeqSerializer_end(self) == Ok(Array(self.elements))

\* ValueSerializer::serialize_tuple_variant
serialize_tuple_variant(variant, len) == Ok([name |-> variant, fields |-> <<>>])

\* TupleVariantSerializer::end
TupleVariantSerializer_end(self) ==
    Ok(Dictionary(IndexMapInsert(<<>>, self.name, Array(self.fields))))

\* ValueSerializer::serialize_map
serialize_map(len) == Ok([entries |-> <<>>, next_key |-> None])

\* ValueSerializer::serialize_struct
serialize_struct(name, len) == serialize_map(None)

\* SerializeStruct for MapSerializer: end
MapSerializer_end(self) == Ok(Dictionary(self.entries))

\* ValueSerializer::serialize_struct_variant
serialize_struct_variant(variant, len) == Ok([name |-> variant, map |-> <<>>])

StructVariantSerializer_end_unwrapped(self) == Ok(Dictionary(self.map))

\* StructVariantSerializer::end
StructVariantSerializer_end(self) ==
    Ok(Dictionary(IndexMapInsert(<<>>, self.name, Dictionary(self.map))))

RECURSIVE Serialize(_, _)

\* ValueSerializer::serialize_newtype_variant
serialize_newtype_variant(variant, T, x) ==
    Try(Serialize(T, x), LAMBDA val :
    Ok(Dictionary(IndexMapInsert(<<>>, variant, val.v))))

SeqSerializer_serialize_element_front(self, T, x) ==
    Try(Serialize(T, x), LAMBDA val :
    Ok([self EXCEPT !.elements = <<val.v>> \o @]))

\* SeqSerializer::serialize_element
SeqSerializer_serialize_element(self, T, x) ==
    Try(Serialize(T, x), LAMBDA val :
    Ok([self EXCEPT !.elements = Append(@, val.v)]))

\* TupleVariantSerializer::serialize_field
TupleVariantSerializer_serialize_field(self, T, x) ==
    Try(Serialize(T, x), LAMBDA val :
    Ok([self EXCEPT !.fields = Append(@, val.v)]))

\* SerializeStruct for MapSerializer: serialize_field
MapSerializer_serialize_field(self, key, T, x) ==
    Try(Serialize(T, x), LAMBDA val :
    Ok([self EXCEPT !.entries = IndexMapInsert(@, key, val.v)]))

\* StructVariantSerializer::serialize_field
StructVariantSerializer_serialize_field(self, key, T, x) ==
    Try(Serialize(T, x), LAMBDA val :
    Ok([self EXCEPT !.map = IndexMapInsert(@, key, val.v)]))

\* Serialize for Vec<T>: serialize_seq, serialize_element for each item, end
RECURSIVE SerializeVec(_, _, _, _)
SerializeVec(self, T, items, i) ==
    IF i > Len(items) THEN SeqSerializer_end(self)
    ELSE Try(SeqSerializer_serialize_element(self, T, items[i]), LAMBDA next :
         SerializeVec(next.v, T, items, i + 1))

\* derived Serialize for a struct: serialize_field for each field in declared
\* order, then end
RECURSIVE SerializeStructFields(_, _, _, _)
SerializeStructFields(self, fields, xs, i) ==
    IF i > Len(fields) THEN MapSerializer_end(self)
    ELSE Try(MapSerializer_serialize_field(self, fields[i].name, fields[i].type, xs[i]),
             LAMBDA next : SerializeStructFields(next.v, fields, xs, i + 1))

\* derived Serialize for a tuple variant
RECURSIVE SerializeTupleVariantFields(_, _, _, _)
SerializeTupleVariantFields(self, fields, xs, i) ==
    IF i > Len(fields) THEN TupleVariantSerializer_end(self)
    ELSE Try(TupleVariantSerializer_serialize_field(self, fields[i].type, xs[i]),
             LAMBDA next : SerializeTupleVariantFields(next.v, fields, xs, i + 1))

\* derived Serialize for a struct variant
RECURSIVE SerializeStructVariantFields(_, _, _, _)
SerializeStructVariantFields(self, fields, xs, i) ==
    IF i > Len(fields) THEN StructVariantSerializer_end(self)
    ELSE Try(StructVariantSerializer_serialize_field(self, fields[i].name,
                                                     fields[i].type, xs[i]),
             LAMBDA next : SerializeStructVariantFields(next.v, fields, xs, i + 1))

\* Display for f64, as to_string() gives it
f64_to_string(x) ==
    CASE x.kind = "nan" -> B(<<"N", "a", "N">>)
      [] x.kind = "inf" -> IF x.neg THEN B(<<"-", "i", "n", "f">>) ELSE B(<<"i", "n", "f">>)
      [] x.kind = "fin" -> fmt_f64(x)

\* a key serializer that takes a unit variant as its name
MapKeySerializer_serialize_variant_name(T, x) ==
    CASE T.kind = "enum" /\ T.variants[x.variant].shape = "unit" ->
            Ok(T.variants[x.variant].name)
      [] T.kind = "bool" -> Ok(IF x.bool THEN B(<<"t", "r", "u", "e">>) ELSE B(<<"f", "a", "l", "s", "e">>))
      [] T.kind = "i8" -> Ok(fmt_i64(i32_as_i64(x.i8)))
      [] T.kind = "i16" -> Ok(fmt_i64(i32_as_i64(x.i16)))
      [] T.kind = "i32" -> Ok(fmt_i64(i32_as_i64(x.i32)))
      [] T.kind = "i64" -> Ok(fmt_i64(x.i64))
      [] T.kind = "u8" -> Ok(fmt_i64(i32_as_i64(x.u8)))
      [] T.kind = "u16" -> Ok(fmt_i64(i32_as_i64(x.u16)))
      [] T.kind = "u32" -> Ok(DigitBytes(x.u32))
      [] T.kind = "u64" -> Ok(DigitBytes(x.u64))
      [] T.kind = "f64" -> Ok(f64_to_string(x.f64))
      [] T.kind = "char" -> Ok(<<x.char>>)
      [] T.kind = "String" -> Ok(x.string)
      [] T.kind \in {"bytes", "Option", "unit", "unit_struct", "Vec", "tuple", "Map",
                     "struct", "enum"} ->
            ErrorNew("dictionary keys must be strings")

\* key.serialize(MapKeySerializer): a bool, an integer, a float, a char or a
\* string gives its to_string(), everything else gives an error
MapKeySerializer_serialize(T, x) ==
    CASE T.kind = "bool" -> Ok(IF x.bool THEN B(<<"t", "r", "u", "e">>) ELSE B(<<"f", "a", "l", "s", "e">>))
      [] T.kind = "i8" -> Ok(fmt_i64(i32_as_i64(x.i8)))
      [] T.kind = "i16" -> Ok(fmt_i64(i32_as_i64(x.i16)))
      [] T.kind = "i32" -> Ok(fmt_i64(i32_as_i64(x.i32)))
      [] T.kind = "i64" -> Ok(fmt_i64(x.i64))
      [] T.kind = "u8" -> Ok(fmt_i64(i32_as_i64(x.u8)))
      [] T.kind = "u16" -> Ok(fmt_i64(i32_as_i64(x.u16)))
      [] T.kind = "u32" -> Ok(DigitBytes(x.u32))
      [] T.kind = "u64" -> Ok(DigitBytes(x.u64))
      [] T.kind = "f64" -> Ok(f64_to_string(x.f64))
      [] T.kind = "char" -> Ok(<<x.char>>)
      [] T.kind = "String" -> Ok(x.string)
      [] T.kind \in {"bytes", "Option", "unit", "unit_struct", "Vec", "tuple", "Map",
                     "struct", "enum"} ->
            ErrorNew("dictionary keys must be strings")

\* SerializeMap for MapSerializer: serialize_key
MapSerializer_serialize_key(self, T, key) ==
    Let(MapKeySerializer_serialize(T, key), LAMBDA k :
        IF ~k.ok THEN [self |-> self, result |-> k]
        ELSE [self |-> [self EXCEPT !.next_key = Some(k.v)], result |-> Ok(<<>>)])

\* SerializeMap for MapSerializer: serialize_value
MapSerializer_serialize_value(self, T, x) ==
    IF ~self.next_key.some
    THEN [self |-> self, result |-> ErrorNew("value serialized before key")]
    ELSE Let(Serialize(T, x), LAMBDA val :
        IF ~val.ok THEN [self |-> [self EXCEPT !.next_key = None], result |-> val]
        ELSE [self |-> [entries |-> IndexMapInsert(self.entries, self.next_key.v, val.v),
                        next_key |-> None],
              result |-> Ok(<<>>)])

\* SerializeMap for MapSerializer: end
SerializeMap_end(self) == Ok(Dictionary(self.entries))

\* Serialize for a map type: serialize_map, then serialize_key and
\* serialize_value for each entry in order, then end.  The key type is an
\* untagged enum: each key serializes as the alternative [type, x] it holds.
RECURSIVE SerializeMapEntries(_, _, _, _)
SerializeMapEntries(self, V, entries, i) ==
    IF i > Len(entries) THEN SerializeMap_end(self)
    ELSE Let(MapSerializer_serialize_key(self, entries[i].key.type, entries[i].key.x),
             LAMBDA k :
         IF ~k.result.ok THEN k.result
         ELSE Let(MapSerializer_serialize_value(k.self, V, entries[i].value), LAMBDA v :
              IF ~v.result.ok THEN v.result
              ELSE SerializeMapEntries(v.self, V, entries, i + 1)))

\* ValueSerializer::serialize_char
serialize_char(v) == Ok(String(<<v>>))

\* ValueSerializer::serialize_bytes
serialize_bytes(v) == Ok(Octet(v))

\* ValueSerializer::serialize_none
serialize_none == Ok(Void)

\* ValueSerializer::serialize_some
serialize_some(T, x) == Serialize(T, x)

\* ValueSerializer::serialize_unit
serialize_unit == Ok(Void)

\* ValueSerializer::serialize_unit_struct
serialize_unit_struct(name) == Ok(Void)

\* derived Serialize for an enum: one serializer call per variant shape
SerializeEnum(variant, xs) ==
    CASE variant.shape = "unit" -> serialize_unit_variant(variant.name)
      [] variant.shape = "newtype" ->
            serialize_newtype_variant(variant.name, variant.fields[1].type, xs[1])
      [] variant.shape = "tuple" ->
            Try(serialize_tuple_variant(variant.name, Len(variant.fields)),
                LAMBDA state : SerializeTupleVariantFields(state.v, variant.fields, xs, 1))
      [] variant.shape = "struct" ->
            Try(serialize_struct_variant(variant.name, Len(variant.fields)),
                LAMBDA state : SerializeStructVariantFields(state.v, variant.fields, xs, 1))

\* value.serialize(ValueSerializer)
Serialize(T, x) ==
    CASE T.kind = "bool" -> serialize_bool(x.bool)
      [] T.kind = "i32" -> serialize_i32(x.i32)
      [] T.kind = "u64" -> serialize_u64(x.u64)
      [] T.kind \in {"i8", "i16", "i64", "u8", "u16", "u32"} -> serialize_int(T.kind, x)
      [] T.kind = "f64" -> serialize_f64(x.f64)
      [] T.kind = "char" -> serialize_char(x.char)
      [] T.kind = "bytes" -> serialize_bytes(x.bytes)
      [] T.kind = "Option" ->
            IF x.option.some THEN serialize_some(T.elem, x.option.v) ELSE serialize_none
      [] T.kind = "unit" -> serialize_unit
      [] T.kind = "unit_struct" -> serialize_unit_struct(<<>>)
      [] T.kind = "Map" ->
            Try(serialize_map(Some(Len(x.map))), LAMBDA state :
                SerializeMapEntries(state.v, T.elem, x.map, 1))
      [] T.kind = "String" -> serialize_str(x.string)
      [] T.kind = "Vec" ->
            Try(serialize_seq(Some(Len(x.vec))), LAMBDA state :
                SerializeVec(state.v, T.elem, x.vec, 1))
      [] T.kind = "struct" ->
            Try(serialize_struct(<<>>, Len(T.fields)), LAMBDA state :
                SerializeStructFields(state.v, T.fields, x.struct, 1))
      [] T.kind = "enum" -> SerializeEnum(T.variants[x.variant], x.fields)

\* ser::to_value
to_value(T, x) == Serialize(T, x)

\* ser::to_string_with_options
to_string_with_options(T, x, opts) ==
    Try(Serialize(T, x), LAMBDA val :
    Ok(value_to_string_with_options(val.v, opts)))

\* ser::to_string
to_string(T, x) == to_string_with_options(T, x, DefaultOptions)

pretty_options_indent4 == [DefaultOptions EXCEPT !.indent = Some(4)]

\* ser::pretty_options
pretty_options == [DefaultOptions EXCEPT !.indent = Some(2)]

\* ser::to_string_pretty
to_string_pretty(T, x) == to_string_with_options(T, x, pretty_options)

\* Write::write_all for a Vec<u8>: appends, never fails
write_all(writer, bytes) == Ok(writer \o bytes)

\* ser::to_writer_with_options; the Ok result carries the writer after the call
to_writer_with_options(writer, T, x, opts) ==
    Try(Serialize(T, x), LAMBDA val :
    write_all(writer, value_to_string_with_options(val.v, opts)))

\* ser::to_writer
to_writer(writer, T, x) == to_writer_with_options(writer, T, x, DefaultOptions)

\* ser::to_writer_pretty
to_writer_pretty(writer, T, x) == to_writer_with_options(writer, T, x, pretty_options)

\* ser::to_vec_with_options
to_vec_with_options(T, x, opts) == to_writer_with_options(<<>>, T, x, opts)

\* ser::to_vec
to_vec(T, x) == to_vec_with_options(T, x, DefaultOptions)

\* ser::to_vec_pretty
to_vec_pretty(T, x) == to_vec_with_options(T, x, pretty_options)

-----------------------------------------------------------------------------
(* Deserialization: src/de.rs.  A deserialize_* method ends in a call of one   *)
(* visitor method, whose result it returns: it is modelled up to that call,    *)
(* Visit(x) standing for visitor.visit_*(x), which the caller then makes.  An  *)
(* access object (SeqDeserializer, MapDeserializer) is a record and every call *)
(* on it returns the object after the call next to its result.                 *)

\* the tail call visitor.visit_*(x) of a deserializer method
Visit(x) == Ok(x)

I32MaxMag == <<2, 1, 4, 7, 4, 8, 3, 6, 4, 7>>
I32MinMag == <<2, 1, 4, 7, 4, 8, 3, 6, 4, 8>>

\* the integer -digs, built without leaving the 32-bit range
RECURSIVE NegDigitsToInt(_, _)
NegDigitsToInt(digs, acc) ==
    IF digs = <<>> THEN acc ELSE NegDigitsToInt(Tail(digs), acc * 10 - Head(digs))

\* the visitor of an i32 target: visit_i64 accepts what i32::try_from accepts
I32Visitor_visit_i64(v) ==
    IF v.neg /\ DecLeq(v.mag, I32MinMag) THEN Ok(DI32(NegDigitsToInt(v.mag, 0)))
    ELSE IF ~v.neg /\ DecLeq(v.mag, I32MaxMag) THEN Ok(DI32(DigitsToNat(v.mag, 0)))
    ELSE ErrorNew("invalid value: integer out of range, expected i32")

\* -MIN and MAX of the narrower integer types, as magnitudes
IntLimits(width) ==
    CASE width = "i8" -> [min |-> <<1, 2, 8>>, max |-> <<1, 2, 7>>]
      [] width = "i16" -> [min |-> <<3, 2, 7, 6, 8>>, max |-> <<3, 2, 7, 6, 7>>]
      [] width = "i64" -> [min |-> I64MinMag, max |-> I64MaxMag]
      [] width = "u8" -> [min |-> <<0>>, max |-> <<2, 5, 5>>]
      [] width = "u16" -> [min |-> <<0>>, max |-> <<6, 5, 5, 3, 5>>]
      [] width = "u32" -> [min |-> <<0>>, max |-> <<4, 2, 9, 4, 9, 6, 7, 2, 9, 5>>]

\* the value of an integer type that an in-range i64 gives
IntData(width, v) ==
    Let(IF v.neg THEN NegDigitsToInt(v.mag, 0) ELSE DigitsToNat(v.mag, 0), LAMBDA n :
    CASE width = "i8" -> DI8(n)
      [] width = "i16" -> DI16(n)
      [] width = "u8" -> DU8(n)
      [] width = "u16" -> DU16(n))

\* the visitor of an i8, i16, i64, u8, u16 or u32 target: visit_i64 / visit_u64
\* accept what try_from accepts
IntVisitor_visit(width, v) ==
    IF DecLeq(v.mag, IF v.neg THEN IntLimits(width).min ELSE IntLimits(width).max)
    THEN Ok(CASE width = "i64" -> DI64(v)
              [] width = "u32" -> DU32(v.mag)
              [] OTHER -> IntData(width, v))
    ELSE ErrorNew("invalid value: integer out of range")

\* ValueDeserializer::deserialize_bool; the message leaves out the found value
deserialize_bool(value_) ==
    IF value_.tag = "Bool" THEN Visit(value_.b) ELSE ErrorNew("expected bool")

\* an integer target that takes a whole Real as its integer
deserialize_i64_truncating(value_) ==
    CASE value_.tag = "Integer" -> Visit(value_.n)
      [] value_.tag = "Real" /\ value_.x.kind = "fin" /\ value_.x.exp >= 0 ->
            Visit(I64(value_.x.neg /\ value_.x.digs # <<0>>,
                      IF value_.x.digs = <<0>> THEN <<0>>
                      ELSE value_.x.digs \o Repeat(0, value_.x.exp)))
      [] OTHER -> ErrorNew("expected integer")

\* ValueDeserializer::deserialize_i64
deserialize_i64(value_) ==
    IF value_.tag = "Integer" THEN Visit(value_.n) ELSE ErrorNew("expected integer")

\* ValueDeserializer::deserialize_i32
deserialize_i32(value_) == deserialize_i64(value_)

\* ValueDeserializer::deserialize_u64: visit_u64(v as u64) for an Integer v >= 0
deserialize_u64(value_) ==
    IF value_.tag = "Integer" /\ ~value_.n.neg THEN Visit(value_.n.mag)
    ELSE ErrorNew("expected unsigned integer")

\* ValueDeserializer::deserialize_f64
deserialize_f64(value_) ==
    CASE value_.tag = "Real" -> Visit(value_.x)
      [] value_.tag = "Integer" -> Visit(i64_as_f64(value_.n))
      [] OTHER -> ErrorNew("expected float")

\* an optional target for which only Void is absent
deserialize_option_void_only(value_) ==
    IF value_.tag = "Void" THEN Visit(None) ELSE Visit(Some(value_))

\* ValueDeserializer::deserialize_option: visit_none, or visit_some with a
\* deserializer of the same value
deserialize_option(value_) ==
    IF value_.tag \in {"Void", "Null"} THEN Visit(None) ELSE Visit(Some(value_))

\* ValueDeserializer::deserialize_unit
deserialize_unit(value_) ==
    IF value_.tag \in {"Void", "Null"} THEN Visit(<<>>) ELSE ErrorNew("expected unit")

\* ValueDeserializer::deserialize_unit_struct
deserialize_unit_struct(value_) == deserialize_unit(value_)

\* ValueDeserializer::deserialize_str
deserialize_str(value_) ==
    IF value_.tag = "String" THEN Visit(value_.s) ELSE ErrorNew("expected string")

\* ValueDeserializer::deserialize_string
deserialize_string(value_) == deserialize_str(value_)

\* ValueDeserializer::deserialize_identifier
deserialize_identifier(value_) == deserialize_str(value_)

\* ValueDeserializer::deserialize_ignored_any
deserialize_ignored_any(value_) == Visit(<<>>)

\* ValueDeserializer::deserialize_seq
deserialize_seq(value_) ==
    IF value_.tag = "Array" THEN Visit([iter |-> value_.items])
    ELSE ErrorNew("expected array")

\* ValueDeserializer::deserialize_map
deserialize_map(value_) ==
    IF value_.tag = "Dictionary" THEN Visit([iter |-> value_.entries, value |-> None])
    ELSE ErrorNew("expected dictionary")

\* ValueDeserializer::deserialize_struct
deserialize_struct(value_) == deserialize_map(value_)

\* ValueDeserializer::deserialize_enum
deserialize_enum(value_) ==
    IF value_.tag = "String" THEN Visit([variant |-> value_.s, value |-> None])
    ELSE IF value_.tag = "Dictionary" THEN
        IF Len(value_.entries) # 1 THEN
            ErrorNew("enum representation must contain exactly one entry")
        ELSE Visit([variant |-> value_.entries[1].key,
                         value |-> Some(value_.entries[1].value)])
    ELSE ErrorNew("expected enum")

\* the derived field identifier: the index of the field with this name, 0 for a
\* name that is not a field (its value is then ignored)
FieldVisitor_visit_string(fields, name) ==
    IF \E i \in 1..Len(fields) : fields[i].name = name
    THEN Ok(CHOOSE i \in 1..Len(fields) : fields[i].name = name)
    ELSE Ok(0)

\* the derived variant identifier: the index of the variant with this name
VariantVisitor_visit_string(variants, name) ==
    IF \E i \in 1..Len(variants) : variants[i].name = name
    THEN Ok(CHOOSE i \in 1..Len(variants) : variants[i].name = name)
    ELSE ErrorNew("unknown variant")

IgnoredAny == [kind |-> "IgnoredAny"]

RECURSIVE Deserialize(_, _)

\* SeqDeserializer::next_element_seed
SeqDeserializer_next_element_seed(self, T) ==
    IF self.iter = <<>> THEN Ok([element |-> None, self |-> self])
    ELSE Try(Deserialize(T, Head(self.iter)), LAMBDA val :
         Ok([element |-> Some(val.v), self |-> [iter |-> Tail(self.iter)]]))

\* MapDeserializer::next_key_seed with the field identifier as the seed
MapDeserializer_next_key_seed(self, fields) ==
    IF self.iter = <<>> THEN Ok([key |-> None, self |-> self])
    ELSE Try(deserialize_identifier(String(Head(self.iter).key)), LAMBDA name :
         Try(FieldVisitor_visit_string(fields, name.v), LAMBDA val :
         Ok([key |-> Some(val.v),
             self |-> [iter |-> Tail(self.iter), value |-> Some(Head(self.iter).value)]])))

\* MapDeserializer::next_value_seed
MapDeserializer_next_value_seed(self, T) ==
    IF ~self.value.some THEN ErrorNew("value missing for key")
    ELSE Try(Deserialize(T, self.value.v), LAMBDA val :
         Ok([value |-> val.v, self |-> [self EXCEPT !.value = None]]))

\* EnumDeserializer::variant_seed with the variant identifier as the seed
EnumDeserializer_variant_seed(self, variants) ==
    Try(deserialize_identifier(String(self.variant)), LAMBDA name :
    Try(VariantVisitor_visit_string(variants, name.v), LAMBDA val :
    Ok([variant |-> val.v, access |-> [value |-> self.value]])))

VariantDeserializer_unit_variant_lenient(self) == Ok(<<>>)

\* VariantDeserializer::unit_variant
VariantDeserializer_unit_variant(self) ==
    IF self.value.some THEN ErrorNew("expected unit variant") ELSE Ok(<<>>)

\* VariantDeserializer::newtype_variant_seed
VariantDeserializer_newtype_variant_seed(self, T) ==
    IF self.value.some THEN Deserialize(T, self.value.v)
    ELSE ErrorNew("expected value for newtype variant")

\* VariantDeserializer::tuple_variant
VariantDeserializer_tuple_variant(self) ==
    IF self.value.some /\ self.value.v.tag = "Array"
    THEN Visit([iter |-> self.value.v.items])
    ELSE ErrorNew("tuple variant expected an array")

\* VariantDeserializer::struct_variant
VariantDeserializer_struct_variant(self) ==
    IF self.value.some /\ self.value.v.tag = "Dictionary"
    THEN Visit([iter |-> self.value.v.entries, value |-> None])
    ELSE ErrorNew("struct variant expected a dictionary")

\* Deserialize for Vec<T>: visit_seq takes elements until next_element gives None
RECURSIVE VecVisitor_visit_seq(_, _, _)
VecVisitor_visit_seq(seq, T, out) ==
    Try(SeqDeserializer_next_element_seed(seq, T), LAMBDA next :
    IF next.v.element.some
    THEN VecVisitor_visit_seq(next.v.self, T, Append(out, next.v.element.v))
    ELSE Ok(DVec(out)))

\* derived visit_seq of a tuple variant: one element for each field
RECURSIVE TupleVisitor_visit_seq(_, _, _, _)
TupleVisitor_visit_seq(seq, fields, i, out) ==
    IF i > Len(fields) THEN Ok(out)
    ELSE Try(SeqDeserializer_next_element_seed(seq, fields[i].type), LAMBDA next :
         IF next.v.element.some
         THEN TupleVisitor_visit_seq(next.v.self, fields, i + 1,
                                     Append(out, next.v.element.v))
         ELSE ErrorNew("invalid length"))

\* derived visit_map, once the keys are exhausted: every field must be there
StructVisitor_finish(slots) ==
    IF \E i \in 1..Len(slots) : ~slots[i].some THEN ErrorNew("missing field")
    ELSE Ok(DStruct([i \in 1..Len(slots) |-> slots[i].v]))

\* derived visit_map of a struct or struct variant: a key, then its value
RECURSIVE StructVisitor_visit_map(_, _, _)
StructVisitor_take_value(map, fields, slots, key) ==
    IF key = 0 THEN
        Try(MapDeserializer_next_value_seed(map, IgnoredAny), LAMBDA next :
        StructVisitor_visit_map(next.v.self, fields, slots))
    ELSE IF slots[key].some THEN ErrorNew("duplicate field")
    ELSE Try(MapDeserializer_next_value_seed(map, fields[key].type), LAMBDA next :
         StructVisitor_visit_map(next.v.self, fields,
                                 [slots EXCEPT ![key] = Some(next.v.value)]))

StructVisitor_visit_map(map, fields, slots) ==
    Try(MapDeserializer_next_key_seed(map, fields), LAMBDA next :
    IF next.v.key.some
    THEN StructVisitor_take_value(next.v.self, fields, slots, next.v.key.v)
    ELSE StructVisitor_finish(slots))

NoSlots(fields) == [i \in 1..Len(fields) |-> None]

\* derived visit_enum: the variant, then its payload by the variant's shape
EnumVisitor_payload(variant, access) ==
    CASE variant.shape = "unit" -> VariantDeserializer_unit_variant(access)
      [] variant.shape = "newtype" ->
            Try(VariantDeserializer_newtype_variant_seed(access, variant.fields[1].type),
                LAMBDA val : Ok(<<val.v>>))
      [] variant.shape = "tuple" ->
            Try(VariantDeserializer_tuple_variant(access), LAMBDA seq :
            TupleVisitor_visit_seq(seq.v, variant.fields, 1, <<>>))
      [] variant.shape = "struct" ->
            Try(VariantDeserializer_struct_variant(access), LAMBDA map :
            Try(StructVisitor_visit_map(map.v, variant.fields, NoSlots(variant.fields)),
                LAMBDA val : Ok(val.v.struct)))

EnumVisitor_visit_enum(enum, variants) ==
    Try(EnumDeserializer_variant_seed(enum, variants), LAMBDA chosen :
    Try(EnumVisitor_payload(variants[chosen.v.variant], chosen.v.access), LAMBDA xs :
    Ok(DEnum(chosen.v.variant, xs.v))))

\* T::deserialize(ValueDeserializer::new(value))
Deserialize(T, value_) ==
    CASE T.kind = "bool" -> Try(deserialize_bool(value_), LAMBDA b : Ok(DBool(b.v)))
      [] T.kind = "i32" -> Try(deserialize_i32(value_), LAMBDA n : I32Visitor_visit_i64(n.v))
      [] T.kind = "u64" -> Try(deserialize_u64(value_), LAMBDA n : Ok(DU64(n.v)))
      [] T.kind \in {"i8", "i16", "i64"} ->
            Try(deserialize_i64(value_), LAMBDA n : IntVisitor_visit(T.kind, n.v))
      [] T.kind \in {"u8", "u16", "u32"} ->
            Try(deserialize_u64(value_), LAMBDA n : IntVisitor_visit(T.kind, I64(FALSE, n.v)))
      [] T.kind = "f64" -> Try(deserialize_f64(value_), LAMBDA x : Ok(DF64(x.v)))
      [] T.kind = "Option" ->
            Try(deserialize_option(value_), LAMBDA o :
            IF ~o.v.some THEN Ok(DOption(None))
            ELSE Try(Deserialize(T.elem, o.v.v), LAMBDA inner : Ok(DOption(Some(inner.v)))))
      [] T.kind = "unit" -> Try(deserialize_unit(value_), LAMBDA u : Ok(DUnit))
      [] T.kind = "unit_struct" -> Try(deserialize_unit_struct(value_), LAMBDA u : Ok(DUnit))
      [] T.kind = "String" -> Try(deserialize_string(value_), LAMBDA s : Ok(DString(s.v)))
      [] T.kind = "IgnoredAny" -> deserialize_ignored_any(value_)
      [] T.kind = "Vec" ->
            Try(deserialize_seq(value_), LAMBDA seq :
            VecVisitor_visit_seq(seq.v, T.elem, <<>>))
      [] T.kind = "struct" ->
            Try(deserialize_struct(value_), LAMBDA map :
            StructVisitor_visit_map(map.v, T.fields, NoSlots(T.fields)))
      [] T.kind = "enum" ->
            Try(deserialize_enum(value_), LAMBDA enum :
            EnumVisitor_visit_enum(enum.v, T.variants))

\* de::from_value
from_value(T, value_) == Deserialize(T, value_)

\* de::from_str
from_str(T, input) ==
    Try(de_parse_value(input), LAMBDA val : from_value(T, val.v))

-----------------------------------------------------------------------------
(* BridgeSpec: a caller holds a typed value and calls the functions of one     *)
(* family (pc), each at most once: the plain, the pretty or the with_options   *)
(* text functions and then from_str, or to_value and then from_value.          *)

MaxFlags == 2

\* struct SampleStruct { name: String, score: i32, flags: Vec<bool> }
SampleStruct ==
    TStruct(<<Field(B(<<"n", "a", "m", "e">>), TString),
              Field(B(<<"s", "c", "o", "r", "e">>), TI32),
              Field(B(<<"f", "l", "a", "g", "s">>), TVec(TBool))>>)

\* an enum with a variant of every shape
SampleEnum ==
    TEnum(<<Variant(B(<<"U", "n", "i", "t">>), "unit", <<>>),
            Variant(B(<<"N", "e", "w", "t", "y", "p", "e">>), "newtype",
                    <<Field(<<>>, TString)>>),
            Variant(B(<<"C", "o", "u", "n", "t">>), "newtype", <<Field(<<>>, TU64)>>),
            Variant(B(<<"T", "u", "p", "l", "e">>), "tuple",
                    <<Field(<<>>, TI32), Field(<<>>, TBool)>>),
            Variant(B(<<"S", "t", "r", "u", "c", "t">>), "struct",
                    <<Field(B(<<"x">>), TI32),
                      Field(B(<<"f", "l", "a", "g", "s">>), TVec(TBool))>>)>>)

NameSamples ==
    { <<>>, B(<<"k", "i", "r", "i", "k", "i", "r", "i">>), <<34, 92, 10, 25991, 37, 93>> }

\* i32 values, with i32::MAX and i32::MIN
ScoreSamples == { 0, 42, -7, 2147483647, -2147483647 - 1 }

\* u64 values: 0, i64::MAX and 10^19, which is above i64::MAX
CountSamples ==
    { <<0>>, I64MaxMag, <<1>> \o Repeat(0, 19) }

FlagsSamples == { [i \in DOMAIN flags |-> DBool(flags[i])] : flags \in SeqsUpTo(BOOLEAN, MaxFlags) }

Data(type, x) == [type |-> type, x |-> x]

SampleStructs ==
    { Data(SampleStruct, DStruct(<<DString(name), DI32(score), DVec(flags)>>)) :
        name \in NameSamples, score \in ScoreSamples, flags \in FlagsSamples }

SampleEnums ==
    { Data(SampleEnum, DEnum(1, <<>>)) }
    \cup { Data(SampleEnum, DEnum(2, <<DString(name)>>)) : name \in NameSamples }
    \cup { Data(SampleEnum, DEnum(3, <<DU64(count)>>)) : count \in CountSamples }
    \cup { Data(SampleEnum, DEnum(4, <<DI32(score), DBool(flag)>>)) :
            score \in ScoreSamples, flag \in BOOLEAN }
    \cup { Data(SampleEnum, DEnum(5, <<DI32(score), DVec(flags)>>)) :
            score \in {0, -7}, flags \in FlagsSamples }

Families == {"plain", "pretty", "with_options", "value"}

BridgeInit ==
    /\ data \in SampleStructs \cup SampleEnums
    /\ pc \in Families
    /\ options \in IF pc = "with_options" THEN OptionsSet ELSE {DefaultOptions}
    /\ value = NoResult
    /\ text = NoResult
    /\ vec = NoResult
    /\ sink = <<>>
    /\ restored = NoResult
    /\ parsed = NoResult
    /\ doc = Idle
    /\ previous = NoResult
    /\ ser = Idle
    /\ de = Idle
    /\ calls = <<>>
    /\ parser = Idle

\* text = to_string(&data)
ToStringDefault ==
    /\ pc = "plain"
    /\ text = NoResult
    /\ text' = to_string(data.type, data.x)
    /\ UNCHANGED <<parser, ser, de, calls, value, options, parsed, doc, previous, data, restored, vec, sink, pc>>

\* text = to_string_pretty(&data)
ToStringPretty ==
    /\ pc = "pretty"
    /\ text = NoResult
    /\ text' = to_string_pretty(data.type, data.x)
    /\ UNCHANGED <<parser, ser, de, calls, value, options, parsed, doc, previous, data, restored, vec, sink, pc>>

\* text = to_string_with_options(&data, &options)
SerToStringWithOptions ==
    /\ pc = "with_options"
    /\ text = NoResult
    /\ text' = to_string_with_options(data.type, data.x, options)
    /\ UNCHANGED <<parser, ser, de, calls, value, options, parsed, doc, previous, data, restored, vec, sink, pc>>

\* vec = to_vec(&data)
ToVec ==
    /\ pc = "plain"
    /\ vec = NoResult
    /\ vec' = to_vec(data.type, data.x)
    /\ UNCHANGED <<parser, ser, de, calls, value, options, text, parsed, doc, previous, data, restored, sink, pc>>

\* vec = to_vec_pretty(&data)
ToVecPretty ==
    /\ pc = "pretty"
    /\ vec = NoResult
    /\ vec' = to_vec_pretty(data.type, data.x)
    /\ UNCHANGED <<parser, ser, de, calls, value, options, text, parsed, doc, previous, data, restored, sink, pc>>

\* vec = to_vec_with_options(&data, &options)
ToVecWithOptions ==
    /\ pc = "with_options"
    /\ vec = NoResult
    /\ vec' = to_vec_with_options(data.type, data.x, options)
    /\ UNCHANGED <<parser, ser, de, calls, value, options, text, parsed, doc, previous, data, restored, sink, pc>>

\* to_writer(&mut sink, &data) on an empty sink; serialization cannot fail for
\* the types of the model, so the sink after the call is the Ok result
ToWriter ==
    /\ pc = "plain"
    /\ sink = <<>>
    /\ sink' = to_writer(sink, data.type, data.x).v
    /\ UNCHANGED <<parser, ser, de, calls, value, options, text, parsed, doc, previous, data, restored, vec, pc>>

\* to_writer_pretty(&mut sink, &data)
ToWriterPretty ==
    /\ pc = "pretty"
    /\ sink = <<>>
    /\ sink' = to_writer_pretty(sink, data.type, data.x).v
    /\ UNCHANGED <<parser, ser, de, calls, value, options, text, parsed, doc, previous, data, restored, vec, pc>>

\* to_writer_with_options(&mut sink, &data, &options)
ToWriterWithOptions ==
    /\ pc = "with_options"
    /\ sink = <<>>
    /\ sink' = to_writer_with_options(sink, data.type, data.x, options).v
    /\ UNCHANGED <<parser, ser, de, calls, value, options, text, parsed, doc, previous, data, restored, vec, pc>>

\* restored = from_str(&text)
FromStr ==
    /\ text.ok
    /\ restored = NoResult
    /\ restored' = from_str(data.type, text.v)
    /\ UNCHANGED <<parser, ser, de, calls, value, options, text, parsed, doc, previous, data, vec, sink, pc>>

\* value = to_value(&data)
ToValue ==
    /\ pc = "value"
    /\ value = NoResult
    /\ value' = to_value(data.type, data.x)
    /\ UNCHANGED <<parser, ser, de, calls, options, text, parsed, doc, previous, data, restored, vec, sink, pc>>

\* restored = from_value(value)
FromValue ==
    /\ pc = "value"
    /\ value.ok
    /\ restored = NoResult
    /\ restored' = from_value(data.type, value.v)
    /\ UNCHANGED <<parser, ser, de, calls, value, options, text, parsed, doc, previous, data, vec, sink, pc>>

BridgeNext ==
    \/ ToStringDefault \/ ToStringPretty \/ SerToStringWithOptions
    \/ ToVec \/ ToVecPretty \/ ToVecWithOptions
    \/ ToWriter \/ ToWriterPretty \/ ToWriterWithOptions
    \/ FromStr \/ ToValue \/ FromValue

BridgeSpec == BridgeInit /\ [][BridgeNext]_vars

-----------------------------------------------------------------------------
(* Claims on the bridges *)

\* C2: for every record with a String field, an i32 field and a Vec<bool> field,
\* from_str(to_string(&x)) succeeds and returns a value equal to x.
C2_StructRoundTrip ==
    (pc = "plain" /\ data.type = SampleStruct /\ restored # NoResult) =>
        restored = Ok(data.x)

\* C2 witness: a record with a non-empty name, a negative score and two different
\* flags came back from its text.
C2_Witness ==
    /\ pc = "plain"
    /\ data.type = SampleStruct
    /\ data.x.struct[1].string # <<>>
    /\ data.x.struct[2].i32 < 0
    /\ Len(data.x.struct[3].vec) = 2
    /\ data.x.struct[3].vec[1] # data.x.struct[3].vec[2]
    /\ text.ok
    /\ restored = Ok(data.x)

\* the Value of an enum value has the shape of its variant: String(name) without
\* a payload, else a Dictionary of the single entry name -> payload, an Array of
\* the fields for positional fields, a Dictionary of the fields for named fields
EnumEncoding(variant, v) ==
    IF variant.shape = "unit" THEN v = String(variant.name)
    ELSE /\ v.tag = "Dictionary"
         /\ Len(v.entries) = 1
         /\ v.entries[1].key = variant.name
         /\ LET payload == v.entries[1].value
            IN CASE variant.shape = "newtype" ->
                        payload.tag = (IF variant.fields[1].type = TString
                                       THEN "String"
                                       ELSE IF payload.tag = "Real" THEN "Real"
                                       ELSE "Integer")
                 [] variant.shape = "tuple" ->
                        /\ payload.tag = "Array"
                        /\ Len(payload.items) = Len(variant.fields)
                 [] variant.shape = "struct" ->
                        /\ payload.tag = "Dictionary"
                        /\ [i \in 1..Len(payload.entries) |-> payload.entries[i].key]
                            = [i \in 1..Len(variant.fields) |-> variant.fields[i].name]

\* the enum value holds a u64 above i64::MAX
HoldsU64AboveI64Max(x) ==
    /\ SampleEnum.variants[x.variant].fields # <<>>
    /\ SampleEnum.variants[x.variant].fields[1].type = TU64
    /\ ~DecLeq(x.fields[1].u64, I64MaxMag)

\* C4 (as amended): to_value(e) of an enum value has the shape of its variant
\* (String(name), Dictionary{name: payload}, Dictionary{name: Array(fields)},
\* Dictionary{name: Dictionary(fields)}), and from_value(to_value(e)) equals e
\* when the payload values themselves survive to_value and from_value, which a
\* u64 above 2^63 - 1 does not.
C4_EnumRoundTrip ==
    (pc = "value" /\ data.type = SampleEnum /\ value # NoResult) =>
        /\ value.ok
        /\ EnumEncoding(SampleEnum.variants[data.x.variant], value.v)
        /\ (restored # NoResult /\ ~HoldsU64AboveI64Max(data.x)) => restored = Ok(data.x)

\* C4 witness: a named-field variant went to a Value and came back.
C4_Witness ==
    /\ pc = "value"
    /\ data.type = SampleEnum
    /\ SampleEnum.variants[data.x.variant].shape = "struct"
    /\ Len(data.x.fields[2].vec) = 2
    /\ value.ok
    /\ value.v.entries[1].value.tag = "Dictionary"
    /\ restored = Ok(data.x)

\* C4 as stated: from_value(to_value(e)) equals e for every enum value e.
C4_Original ==
    (pc = "value" /\ data.type = SampleEnum /\ restored # NoResult) =>
        restored = Ok(data.x)

\* C10: for the same value and options the string, byte-buffer and writer forms
\* agree byte for byte (to_vec with to_string, to_vec_pretty with
\* to_string_pretty, the bytes written by to_writer with to_vec), and the pretty
\* forms render with indent = 2 and const_hint = true.
C10_OutputFormsAgree ==
    /\ (text # NoResult /\ vec # NoResult) => (text.ok /\ vec = Ok(text.v))
    /\ (vec # NoResult /\ sink # <<>>) => vec = Ok(sink)
    /\ (pc = "pretty" /\ text # NoResult) =>
            text = to_string_with_options(data.type, data.x,
                                          [const_hint |-> TRUE, indent |-> Some(2)])

\* C10 witness: the three pretty forms of a record were produced, on several lines.
C10_Witness ==
    /\ pc = "pretty"
    /\ data.type = SampleStruct
    /\ text.ok
    /\ vec = Ok(text.v)
    /\ sink = text.v
    /\ \E i \in 1..Len(sink) : sink[i] = 10

-----------------------------------------------------------------------------
(* LexSpec: a caller writes one fragment (a construct that is never closed, a   *)
(* bad octet digit, a bare const, a number) at a place of a text and parses it. *)
(*   text = before \o blanks \o head \o body \o tail \o after                    *)
(* before and after are the surrounding tokens, blanks are whitespace and       *)
(* closed comments, head \o body \o tail is the fragment.                        *)

LexBlanks ==
    { <<>>, B(<<" ">>), <<194, 160>>, B(<<"/", "*", "c", "*", "/", " ">>), <<47, 47, 99, 10>>, B(<<" ", "/", "*", " ", "*", " ", "*", "/">>) }

\* value positions: the top level, an array element, a dictionary value
TopContext == [before |-> <<>>, after |-> <<>>]
ArrayContext == [before |-> B(<<"[", "1", ",">>), after |-> B(<<"]">>)]
DictContext == [before |-> B(<<"%", "[", "k", "=", ">">>), after |-> B(<<"]">>)]
ValueContexts == { TopContext, ArrayContext, DictContext }

\* the Value that a text holds when v is the value written at the position
InContext(d, v) ==
    CASE d.before = TopContext.before -> v
      [] d.before = ArrayContext.before -> Array(<<Integer(I64(FALSE, <<1>>)), v>>)
      [] d.before = DictContext.before -> Dictionary(<<[key |-> <<107>>, value |-> v]>>)

LexDoc(kind, context, blanks, head, body, tail) ==
    [kind |-> kind, before |-> context.before, blanks |-> blanks, head |-> head,
     body |-> body, tail |-> tail, after |-> context.after]

\* the places where the parser starts a scan for whitespace and comments: every
\* text here ends just before such a scan
ScanStarts ==
    { <<>>, B(<<"1">>), B(<<"[">>), B(<<"[", "1">>), B(<<"[", "1", ",">>), B(<<"%">>), B(<<"%", "[", "k">>), B(<<"%", "[", "k", "=", ">">>), B(<<"%", "[", "k", ":", "1">>), B(<<"%", "[", "k", "=", ">", "1", ",">>) }

CommentBodies == { <<>>, B(<<" ", "c">>), B(<<" ", "c", " ", "*">>), B(<<"/", " ", "*", " ", "/">>), B(<<"*">>) }

CommentDocs ==
    { LexDoc("comment", [before |-> before, after |-> <<>>], blanks, B(<<"/", "*">>), body, <<>>) :
        before \in ScanStarts, blanks \in LexBlanks, body \in CommentBodies }

\* a quote and the characters after it, none of which closes the string
StringFaults ==
    { [head |-> <<34>>, body |-> <<>>], [head |-> <<39>>, body |-> <<>>],
      [head |-> <<34>>, body |-> B(<<"a", "b", "c">>)], [head |-> <<34>>, body |-> B(<<"i", "t", "'", "s">>)],
      [head |-> <<39>>, body |-> <<97, 34, 98>>], [head |-> <<34>>, body |-> <<97, 92, 34>>],
      [head |-> <<39>>, body |-> <<92, 39, 120>>], [head |-> <<34>>, body |-> <<195, 169>>],
      [head |-> <<34>>, body |-> <<97, 92>>], [head |-> <<34>>, body |-> <<97, 92, 92>>],
      [head |-> <<39>>, body |-> B(<<"]">>)],
      [head |-> <<34>>, body |-> <<97, 92, 120, 52, 49>>], [head |-> <<39>>, body |-> <<92, 117, 48, 48, 101, 57, 98>>] }

StringDocs ==
    { LexDoc("string", [before |-> before, after |-> <<>>], blanks, f.head, f.body, <<>>) :
        before \in { <<>>, B(<<"[", "1", ",">>), B(<<"%", "[", "k", "=", ">">>), B(<<"%", "[">>) }, blanks \in LexBlanks,
        f \in StringFaults }

\* the bytes of an octet literal read so far and the text from the first byte
\* that is neither a digit the parser expects nor the closing "%>"
OctetFaults ==
    { [body |-> <<>>, tail |-> B(<<"g", " ", "%", ">">>)], [body |-> B(<<" ", "0", "a", " ">>), tail |-> B(<<"x">>)],
      [body |-> B(<<" ", "0", "a">>), tail |-> B(<<"%">>)], [body |-> B(<<"0">>), tail |-> B(<<" ", "0", "%", ">">>)],
      [body |-> B(<<"0">>), tail |-> B(<<"%", ">">>)], [body |-> B(<<" ", "0", "A", " ", "1">>), tail |-> B(<<"G", "0", "%", ">">>)],
      [body |-> <<>>, tail |-> B(<<">">>)], [body |-> B(<<" ">>), tail |-> <<195, 169, 37, 62>>],
      [body |-> B(<<"f", "f">>), tail |-> B(<<"-", "1", " ", "%", ">">>)] }

OctetDocs ==
    { LexDoc("octet", context, blanks, B(<<"<", "%">>), f.body, f.tail) :
        context \in ValueContexts, blanks \in LexBlanks, f \in OctetFaults }

\* followers of a bare const
ConstFollowers ==
    { <<>>, B(<<" ", "1">>), B(<<"[", "1", "]">>), B(<<"%", "[", "a", "=", ">", "1", "]">>), <<10, 39, 120, 39>>, <<194, 160, 49>>, B(<<" ">>), B(<<"[">>), B(<<"%">>), <<9, 91, 93>>,
      B(<<"a", "n", "t">>), <<34, 120, 34>>, B(<<"(", "c", "o", "n", "s", "t", ")", " ", "[", "1", "]">>), B(<<"/", "*", "c", "*", "/", "[", "1", "]">>), B(<<"1">>), B(<<",">>), B(<<"_">>), <<195, 169>>, B(<<"<", "%", " ", "0", "a", " ", "%", ">">>),
      B(<<"'", "x", "'">>), B(<<"-", "1">>), B(<<":">>), B(<<"]">>) }

ConstDocs ==
    { LexDoc("const", context, blanks, B(<<"c", "o", "n", "s", "t">>), <<>>, tail) :
        context \in ValueContexts \cup { [before |-> B(<<"(", "c", "o", "n", "s", "t", ")", " ">>), after |-> <<>>],
                                         [before |-> B(<<"c", "o", "n", "s", "t", " ">>), after |-> <<>>] },
        blanks \in LexBlanks, tail \in ConstFollowers }

Signs == { <<>>, B(<<"+">>), B(<<"-">>) }

IntegerDigits ==
    { <<>>, B(<<"0">>), B(<<"1">>), B(<<"0", "0", "7">>), B(<<"9", "2", "2", "3", "3", "7", "2", "0", "3", "6", "8", "5", "4", "7", "7", "5", "8", "0", "7">>), B(<<"9", "2", "2", "3", "3", "7", "2", "0", "3", "6", "8", "5", "4", "7", "7", "5", "8", "0", "8">>),
      B(<<"9", "9", "9", "9", "9", "9", "9", "9", "9", "9", "9", "9", "9", "9", "9", "9", "9", "9", "9", "9">>) }

Fractions == { <<>>, B(<<".">>), B(<<".", "0">>), B(<<".", "5">>) }
Exponents == { <<>>, B(<<"e", "0">>), B(<<"E", "+", "2">>), B(<<"e", "-", "1">>) }

DecimalDocs ==
    { LexDoc("decimal", context, <<>>, sign, digits, fraction \o exponent) :
        context \in ValueContexts, sign \in Signs, digits \in IntegerDigits,
        fraction \in Fractions, exponent \in Exponents }

\* a mantissa, then an exponent marker with its optional sign and no digit
ExponentMarkers == { B(<<"e">>), B(<<"E">>), B(<<"e", "+">>), B(<<"E", "-">>) }

ExponentDocs ==
    { LexDoc("exponent", context, <<>>, sign \o mantissa, marker, tail) :
        context \in ValueContexts, sign \in Signs, mantissa \in { B(<<"1">>), B(<<"0", ".", "5">>), B(<<"1", ".">>) },
        marker \in ExponentMarkers, tail \in { <<>>, B(<<" ">>), B(<<"x">>) } }

\* hex digits and the magnitude they denote, in decimal digits
HexSamples ==
    { [hex |-> B(<<"0">>), mag |-> <<0>>],
      [hex |-> B(<<"f", "f">>), mag |-> <<2, 5, 5>>],
      [hex |-> B(<<"F", "e">>), mag |-> <<2, 5, 4>>],
      [hex |-> B(<<"0", "0", "0", "0", "0", "0", "0", "0", "0", "0", "0", "0", "0", "0", "0", "0", "1", "A">>), mag |-> <<2, 6>>],
      [hex |-> B(<<"7", "f", "f", "f", "f", "f", "f", "f", "f", "f", "f", "f", "f", "f", "f", "f">>), mag |-> I64MaxMag],
      [hex |-> B(<<"8", "0", "0", "0", "0", "0", "0", "0", "0", "0", "0", "0", "0", "0", "0", "0">>), mag |-> I64MinMag],
      [hex |-> B(<<"8", "0", "0", "0", "0", "0", "0", "0", "0", "0", "0", "0", "0", "0", "0", "1">>),
       mag |-> <<9, 2, 2, 3, 3, 7, 2, 0, 3, 6, 8, 5, 4, 7, 7, 5, 8, 0, 9>>],
      [hex |-> B(<<"f", "f", "f", "f", "f", "f", "f", "f", "f", "f", "f", "f", "f", "f", "f", "f">>),
       mag |-> <<1, 8, 4, 4, 6, 7, 4, 4, 0, 7, 3, 7, 0, 9, 5, 5, 1, 6, 1, 5>>],
      [hex |-> B(<<"1", "0", "0", "0", "0", "0", "0", "0", "0", "0", "0", "0", "0", "0", "0", "0", "0">>),
       mag |-> <<1, 8, 4, 4, 6, 7, 4, 4, 0, 7, 3, 7, 0, 9, 5, 5, 1, 6, 1, 6>>],
      [hex |-> B(<<"7", "f", "f", "f", "f", "f", "f", "f", "f", "f", "f", "f", "f", "f", "f", "f", "f", "f", "f", "f", "f", "f", "f", "f", "f", "f", "f", "f", "f", "f", "f", "f">>), mag |-> I128MaxMag],
      [hex |-> B(<<"f", "f", "f", "f", "f", "f", "f", "f", "f", "f", "f", "f", "f", "f", "f", "f", "f", "f", "f", "f", "f", "f", "f", "f", "f", "f", "f", "f", "f", "f", "f", "f">>),
       mag |-> <<3, 4, 0, 2, 8, 2, 3, 6, 6, 9, 2, 0, 9, 3, 8, 4, 6, 3, 4, 6,
                 3, 3, 7, 4, 6, 0, 7, 4, 3, 1, 7, 6, 8, 2, 1, 1, 4, 5, 5>>] }

HexDocs ==
    { LexDoc("hex", context, blanks, sign \o prefix, s.hex, <<>>) :
        context \in ValueContexts, blanks \in { <<>>, B(<<" ">>) }, sign \in Signs,
        prefix \in { B(<<"0", "x">>), B(<<"0", "X">>) }, s \in HexSamples }
    \cup
    { LexDoc("hex", context, <<>>, sign \o prefix, <<>>, tail) :
        context \in ValueContexts, sign \in Signs, prefix \in { B(<<"0", "x">>), B(<<"0", "X">>) },
        tail \in { <<>>, B(<<"g">>), B(<<" ", "1">>), B(<<".", "5">>) } }

\* interiors of an octet literal made of whole pairs, with the bytes they denote
OctetInteriors ==
    { [hex |-> <<>>, bytes |-> <<>>],
      [hex |-> B(<<" ">>), bytes |-> <<>>],
      [hex |-> B(<<"0", "a">>), bytes |-> <<10>>],
      [hex |-> B(<<" ", "0", "A", " ", "f", "F", " ">>), bytes |-> <<10, 255>>],
      [hex |-> B(<<"0", "0", "f", "f", "1", "0">>), bytes |-> <<0, 255, 16>>],
      [hex |-> <<9, 57, 99, 10, 10, 55, 66>>, bytes |-> <<156, 123>>],
      [hex |-> <<194, 160, 49, 50, 32>>, bytes |-> <<18>>] }

\* what follows the pairs: the closing "%>", or a text with the offset in it at
\* which a hex digit is missing (eof: the fragment ends there, and so does the
\* input at the top level)
OctetEndings ==
    { [end |-> B(<<"%", ">">>), closed |-> TRUE, at |-> 0, eof |-> FALSE],
      [end |-> <<>>, closed |-> FALSE, at |-> 0, eof |-> TRUE],
      [end |-> B(<<"0">>), closed |-> FALSE, at |-> 1, eof |-> TRUE],
      [end |-> B(<<"g", "%", ">">>), closed |-> FALSE, at |-> 0, eof |-> FALSE],
      [end |-> B(<<"0", " ", "1", "%", ">">>), closed |-> FALSE, at |-> 1, eof |-> FALSE],
      [end |-> B(<<"0", "%", ">">>), closed |-> FALSE, at |-> 1, eof |-> FALSE],
      [end |-> B(<<"a", "1", "b", "%", ">">>), closed |-> FALSE, at |-> 3, eof |-> FALSE],
      [end |-> B(<<"%", " ", ">">>), closed |-> FALSE, at |-> 0, eof |-> FALSE],
      [end |-> B(<<"/", "*", "c", "*", "/", "%", ">">>), closed |-> FALSE, at |-> 0, eof |-> FALSE],
      [end |-> B(<<"-", "1", " ", "%", ">">>), closed |-> FALSE, at |-> 0, eof |-> FALSE] }

OctetLiteralDocs ==
    { LexDoc("octets", context, <<>>, B(<<"<", "%">>), i.hex, e.end) :
        e \in OctetEndings, i \in OctetInteriors, context \in ValueContexts }

\* the longest row of elements and commas in a literal
MaxTokens == 4

Comma == [text |-> B(<<",">>), comma |-> TRUE]
Elem(form, v) == [text |-> form, comma |-> FALSE, v |-> v]

\* array elements and dictionary entries, each with what it denotes
ArrayTokens ==
    { Comma, Elem(B(<<"1">>), Integer(I64(FALSE, <<1>>))), Elem(B(<<"'", "x", "'">>), String(B(<<"x">>))) }

DictTokens ==
    { Comma, Elem(B(<<"a", "=", ">", "1">>), Entry(B(<<"a">>), Integer(I64(FALSE, <<1>>)))),
      Elem(<<34, 98, 34, 58, 118, 111, 105, 100>>, Entry(B(<<"b">>), Void)) }

\* rows of tokens in which no element occurs twice
Rows(tokens) ==
    { row \in UNION { [1..n -> tokens] : n \in 0..MaxTokens } :
        \A i, j \in DOMAIN row : (i # j /\ row[i] = row[j]) => row[i].comma }

RowText(row, sep) == Flatten([i \in DOMAIN row |-> row[i].text \o sep])

ListShapes(tokens) == { [row |-> row, sep |-> sep] : row \in Rows(tokens), sep \in { <<>>, B(<<" ">>) } }

ArrayRowDocs ==
    { LexDoc("array", TopContext, <<>>, B(<<"[">>), RowText(shape.row, shape.sep), B(<<"]">>)) :
        shape \in ListShapes(ArrayTokens) }

DictRowDocs ==
    { LexDoc("dictionary", TopContext, <<>>, B(<<"%", "[">>), RowText(shape.row, shape.sep), B(<<"]">>)) :
        shape \in ListShapes(DictTokens) }

\* dictionary keys as written, each with the key it denotes (None: not a key)
KeyForms ==
    { [form |-> B(<<"a">>), key |-> Some(B(<<"a">>))],
      [form |-> B(<<"_">>), key |-> Some(B(<<"_">>))],
      [form |-> B(<<"_", "x", "9">>), key |-> Some(B(<<"_", "x", "9">>))],
      [form |-> B(<<"A", "_", "b">>), key |-> Some(B(<<"A", "_", "b">>))],
      [form |-> B(<<"Z", "z", "0", "9">>), key |-> Some(B(<<"Z", "z", "0", "9">>))],
      [form |-> B(<<"c", "o", "n", "s", "t">>), key |-> Some(B(<<"c", "o", "n", "s", "t">>))],
      [form |-> B(<<"'", "a", " ", "b", "'">>), key |-> Some(B(<<"a", " ", "b">>))],
      [form |-> <<34, 107, 45, 49, 34>>, key |-> Some(B(<<"k", "-", "1">>))],
      [form |-> B(<<"'", "'">>), key |-> Some(<<>>)],
      [form |-> <<>>, key |-> None],
      [form |-> B(<<"9", "a">>), key |-> None],
      [form |-> B(<<"1">>), key |-> None],
      [form |-> B(<<"a", "-", "b">>), key |-> None],
      [form |-> B(<<"a", ".", "b">>), key |-> None],
      [form |-> B(<<"a", " ", "b">>), key |-> None],
      [form |-> B(<<"-", "a">>), key |-> None],
      [form |-> <<195, 169>>, key |-> None],
      [form |-> <<107, 195, 169>>, key |-> None],
      [form |-> B(<<"[", "a", "]">>), key |-> None] }

KeySeparators == { B(<<"=", ">">>), B(<<":">>), B(<<" ", "=", ">", " ">>), B(<<" ", ":", " ">>) }

KeyDocs ==
    { LexDoc("key", TopContext, <<>>, B(<<"%", "[">>), k.form, sep \o B(<<"1", "]">>)) :
        k \in KeyForms, sep \in KeySeparators }

LexDocs == CommentDocs \cup StringDocs \cup OctetDocs \cup ConstDocs \cup DecimalDocs
           \cup ExponentDocs \cup HexDocs \cup OctetLiteralDocs
           \cup ArrayRowDocs \cup DictRowDocs \cup KeyDocs

LexText(d) == d.before \o d.blanks \o d.head \o d.body \o d.tail \o d.after

\* the offset of the fragment
FragmentStart(d) == Len(d.before) + Len(d.blanks)

LexInit ==
    /\ doc \in LexDocs
    /\ text = LexText(doc)
    /\ parsed = NoResult
    /\ previous = NoResult
    /\ value = Void
    /\ options = DefaultOptions
    /\ data = Idle
    /\ restored = NoResult
    /\ vec = NoResult
    /\ sink = Idle
    /\ pc = "input"
    /\ ser = Idle
    /\ de = Idle
    /\ calls = <<>>
    /\ parser = Idle

\* parse_value(&text)
LexParse ==
    /\ pc \in {"input", "rewritten"}
    /\ parsed' = de_parse_value(text)
    /\ pc' = IF pc = "input" THEN "parsed" ELSE "reparsed"
    /\ UNCHANGED <<parser, ser, de, calls, value, options, text, doc, previous, data, restored, vec, sink>>

\* the caller writes the bare const in its parenthesized form
ParenthesizeKeyword ==
    /\ pc = "parsed"
    /\ doc.kind = "const"
    /\ text' = doc.before \o doc.blanks \o B(<<"(", "c", "o", "n", "s", "t", ")">>)
               \o doc.tail \o doc.after
    /\ previous' = parsed
    /\ parsed' = NoResult
    /\ pc' = "rewritten"
    /\ UNCHANGED <<parser, ser, de, calls, value, options, doc, data, restored, vec, sink>>

LexNext == LexParse \/ ParenthesizeKeyword

LexSpec == LexInit /\ [][LexNext]_vars

-----------------------------------------------------------------------------
(* Claims on parse_value over single fragments *)

\* the magnitude that the hex digits of a document denote
HexMagnitude(d) == (CHOOSE s \in HexSamples : s.hex = d.body).mag

HexNegative(d) == d.head[1] = 45

\* sign * magnitude lies in [-2^63, 2^63 - 1]
HexInRange(d) ==
    DecLeq(HexMagnitude(d), IF HexNegative(d) THEN I64MinMag ELSE I64MaxMag)

\* the documents of the four faults: a block comment or a string that is never
\* closed, a bad digit in an octet literal, a hex integer outside the i64 range
IsFaulty(d) ==
    \/ d.kind \in {"comment", "string", "octet"}
    \/ d.kind = "hex" /\ d.body # <<>> /\ ~HexInRange(d)

\* where the input goes wrong: the end of input, where the closing "*/" or quote
\* is missing; the bad digit of the octet literal; the digits of the hex integer
FaultLocation(d) ==
    CASE d.kind \in {"comment", "string"} -> Len(LexText(d))
      [] d.kind = "octet" -> FragmentStart(d) + Len(d.head) + Len(d.body)
      [] d.kind = "hex" -> FragmentStart(d) + Len(d.head)

FaultMessages(d) ==
    CASE d.kind = "comment" -> {"unterminated block comment"}
      [] d.kind = "string" -> {"unterminated string", "unterminated escape"}
      [] d.kind = "octet" -> {"invalid octet digit"}
      [] d.kind = "hex" -> {"integer overflow", "invalid hex number"}

\* C11: a text with a block comment that is never closed, a string that is never
\* closed, a bad digit inside an octet literal or a hex integer out of range fails
\* to parse, and the error carries a byte position at or before the place where
\* the input goes wrong.
C11_FaultPositions ==
    (pc = "parsed" /\ IsFaulty(doc)) =>
        /\ ~parsed.ok
        /\ parsed.message \in FaultMessages(doc)
        /\ parsed.position.some
        /\ parsed.position.v <= FaultLocation(doc)

C11_Witness ==
    /\ pc = "parsed"
    /\ doc.kind = "octet"
    /\ doc.body # <<>>
    /\ doc.blanks # <<>>
    /\ doc.before # <<>>
    /\ parsed = ErrorWithPosition("invalid octet digit", FaultLocation(doc))

\* C16 (as amended): a block comment that is never closed fails with
\* "unterminated block comment" at the offset just after its "/*", wherever the
\* scan for whitespace and comments started.
C16_CommentPosition ==
    (pc = "parsed" /\ doc.kind = "comment") =>
        parsed = ErrorWithPosition("unterminated block comment", FragmentStart(doc) + 2)

C16_Witness ==
    /\ pc = "parsed"
    /\ doc.kind = "comment"
    /\ doc.blanks # <<>>
    /\ doc.body # <<>>
    /\ parsed = ErrorWithPosition("unterminated block comment", FragmentStart(doc) + 2)

\* C16 as stated: the offset reported is the one at which the scan for whitespace
\* and comments started.
C16_Original ==
    (pc = "parsed" /\ doc.kind = "comment") =>
        parsed = ErrorWithPosition("unterminated block comment", Len(doc.before))

\* the text after a bare const makes it a hint: end of input, whitespace, '[', '%'
IsHintFollower(rest) ==
    \/ rest = <<>>
    \/ rest[1] \in {9, 10, 11, 12, 13, 32, 91, 37}
    \/ (Len(rest) >= 2 /\ SubSeq(rest, 1, 2) = <<194, 160>>)

\* a result whose error position, if any, is n bytes further on
Shifted(r, n) ==
    IF r.ok THEN r ELSE ErrorWithPosition(r.message, r.position.v + n)

\* C17: in value position a bare const is consumed as a hint (the text parses as
\* it does with "(const)" in its place, which is two bytes longer) exactly when
\* the character after it is whitespace, '[', '%' or the end of input; otherwise
\* the parse fails with "unexpected token" at the offset of its 'c'.
C17_Original ==
    (pc = "reparsed" /\ doc.kind = "const") =>
        IF IsHintFollower(doc.tail \o doc.after)
        THEN parsed = Shifted(previous, 2)
        ELSE previous = ErrorWithPosition("unexpected token", FragmentStart(doc))

\* the value written at the position of a document that parsed to v
AtPosition(d, v) ==
    CASE d.before = TopContext.before -> v
      [] d.before = ArrayContext.before -> v.items[2]
      [] d.before = DictContext.before -> v.entries[1].value

\* the decimal digits of a document's integer part as a magnitude
DecimalMagnitude(d) == StripLeadingZeros([i \in 1..Len(d.body) |-> d.body[i] - 48])

DecimalNegative(d) == d.head = B(<<"-">>)

\* the literal is accepted: it has a digit in its integer part, or it starts
\* with a sign and has a digit after its '.' (a leading '.' starts no value)
DecimalAccepted(d) ==
    \/ d.body # <<>>
    \/ (d.head # <<>> /\ Len(d.tail) >= 2 /\ d.tail[1] = 46 /\ d.tail[2] \in 48..57)

\* no '.', no exponent, and sign * magnitude in [-2^63, 2^63 - 1]
DecimalIsInteger(d) ==
    /\ d.tail = <<>>
    /\ DecLeq(DecimalMagnitude(d), IF DecimalNegative(d) THEN I64MinMag ELSE I64MaxMag)

\* C19: a decimal literal with no '.' and no exponent whose value fits an i64
\* parses to the Integer of that value; every other accepted decimal literal
\* parses to a Real, which is never equal to an Integer: 1 is Integer(1), 1.0 and
\* 1e0 are the Real 1.0.
C19_DecimalLiterals ==
    (pc = "parsed" /\ doc.kind = "decimal" /\ DecimalAccepted(doc)) =>
        LET mag == DecimalMagnitude(doc)
            asInteger == Integer(I64(DecimalNegative(doc) /\ mag # <<0>>, mag))
        IN IF DecimalIsInteger(doc)
           THEN parsed = Ok(InContext(doc, asInteger))
           ELSE /\ parsed.ok
                /\ AtPosition(doc, parsed.v).tag = "Real"
                /\ ~ValueEq(AtPosition(doc, parsed.v), asInteger)
                /\ (doc.head = <<>> /\ doc.body = B(<<"1">>) /\ doc.tail \in { B(<<".", "0">>), B(<<"e", "0">>), B(<<".">>) })
                        => parsed = Ok(InContext(doc, Real(Finite(FALSE, <<1>>, 0))))

C19_Witness ==
    /\ pc = "parsed"
    /\ doc.kind = "decimal"
    /\ doc.head = B(<<"-">>)
    /\ doc.body = B(<<"9", "2", "2", "3", "3", "7", "2", "0", "3", "6", "8", "5", "4", "7", "7", "5", "8", "0", "8">>)
    /\ doc.before = ArrayContext.before
    /\ \/ doc.tail = <<>> /\ AtPosition(doc, parsed.v) = Integer(I64(TRUE, I64MinMag))
       \/ doc.tail = B(<<".", "0">>) /\ AtPosition(doc, parsed.v).tag = "Real"

\* C20: an optional sign, "0x" or "0X" and at least one hex digit parse to the
\* Integer sign * magnitude when it lies in [-2^63, 2^63 - 1] and fail otherwise
\* (no wrapping, no Real); "0x" with no hex digit fails; the hex form is taken
\* before the leading '0' is scanned as a decimal.
C20_HexLiterals ==
    (pc = "parsed" /\ doc.kind = "hex") =>
        IF doc.body = <<>>
        THEN parsed = ErrorWithPosition("expected hex digits",
                                        FragmentStart(doc) + Len(doc.head))
        ELSE IF HexInRange(doc)
        THEN parsed = Ok(InContext(doc,
                 Integer(I64(HexNegative(doc) /\ HexMagnitude(doc) # <<0>>,
                             HexMagnitude(doc)))))
        ELSE /\ ~parsed.ok
             /\ parsed.message \in {"integer overflow", "invalid hex number"}

C20_Witness ==
    /\ pc = "parsed"
    /\ doc.kind = "hex"
    /\ doc.before = DictContext.before
    /\ doc.body = B(<<"8", "0", "0", "0", "0", "0", "0", "0", "0", "0", "0", "0", "0", "0", "0", "0">>)
    /\ \/ HexNegative(doc) /\ AtPosition(doc, parsed.v) = Integer(I64(TRUE, I64MinMag))
       \/ ~HexNegative(doc) /\ parsed.message = "integer overflow"

-----------------------------------------------------------------------------
(* TokenSpec: a caller has a text as a list of tokens, parses it, then inserts  *)
(* whitespace and comments between tokens and parses it again.                  *)
(*   text = gaps[1] \o tokens[1] \o gaps[2] \o ... \o tokens[n] \o gaps[n + 1]   *)

MaxInserts == 2

TokenLists ==
    { << B(<<"[">>), B(<<"1">>), B(<<",">>), B(<<"2">>), B(<<"]">>) >>,
      << B(<<"%">>), B(<<"[">>), <<34, 97, 34>>, B(<<"=", ">">>), B(<<"1">>), B(<<",">>), B(<<"b">>), B(<<":">>), B(<<"'", "x", "'">>), B(<<",">>), B(<<"]">>) >>,
      << B(<<"(", "c", "o", "n", "s", "t", ")">>), B(<<"(", "c", "o", "n", "s", "t", ")">>), B(<<"[">>), B(<<"]">>) >>,
      << B(<<"c", "o", "n", "s", "t">>), B(<<"[">>), B(<<"1">>), B(<<"]">>) >>,
      << B(<<"(", "c", "o", "n", "s", "t", ")">>), B(<<"c", "o", "n", "s", "t">>), B(<<"%">>), B(<<"[">>), B(<<"]">>) >>,
      << B(<<"<", "%", " ", "0", "a", " ", "%", ">">>) >>,
      << B(<<"[">>), B(<<"(", "c", "o", "n", "s", "t", ")">>), B(<<"[">>), B(<<"t", "r", "u", "e">>), B(<<"]">>), B(<<",">>), B(<<"-", "1", ".", "5">>), B(<<"]">>) >> }

\* a space, a newline, a line comment with its newline, a block comment
TokenBlanks == { B(<<" ">>), <<10>>, <<47, 47, 99, 10>>, B(<<"/", "*", "c", "*", "/">>) }

\* a line comment that runs to the end of input
FinalComment == B(<<"/", "/", "c">>)

TokenText(d) ==
    Flatten([i \in 1..(2 * Len(d.tokens) + 1) |->
                IF i % 2 = 1 THEN d.gaps[(i + 1) \div 2] ELSE d.tokens[i \div 2]])

TokenInit ==
    /\ \E tokens \in TokenLists :
        doc = [tokens |-> tokens, gaps |-> [i \in 1..(Len(tokens) + 1) |-> <<>>],
               inserted |-> 0]
    /\ text = TokenText(doc)
    /\ parsed = NoResult
    /\ previous = NoResult
    /\ value = Void
    /\ options = DefaultOptions
    /\ data = Idle
    /\ restored = NoResult
    /\ vec = NoResult
    /\ sink = Idle
    /\ pc = "input"
    /\ ser = Idle
    /\ de = Idle
    /\ calls = <<>>
    /\ parser = Idle

\* parse_value(&text)
TokenParse ==
    /\ pc \in {"input", "spaced"}
    /\ parsed' = de_parse_value(text)
    /\ pc' = IF pc = "input" THEN "parsed" ELSE "reparsed"
    /\ UNCHANGED <<parser, ser, de, calls, value, options, text, doc, previous, data, restored, vec, sink>>

\* the caller adds whitespace or a comment at the end of one gap; previous keeps
\* the parse of the text as it was first
InsertBlank ==
    /\ pc \in {"parsed", "reparsed"}
    /\ doc.inserted < MaxInserts
    /\ \E i \in 1..Len(doc.gaps) :
       \E blank \in TokenBlanks \cup (IF i = Len(doc.gaps) THEN {FinalComment} ELSE {}) :
        LET next == [doc EXCEPT !.gaps[i] = @ \o blank, !.inserted = @ + 1]
        IN /\ doc' = next
           /\ text' = TokenText(next)
    /\ previous' = IF pc = "parsed" THEN parsed ELSE previous
    /\ parsed' = NoResult
    /\ pc' = "spaced"
    /\ UNCHANGED <<parser, ser, de, calls, value, options, data, restored, vec, sink>>

TokenNext == TokenParse \/ InsertBlank

TokenSpec == TokenInit /\ [][TokenNext]_vars

-----------------------------------------------------------------------------
(* Claims on parse_value over spaced tokens *)

\* C18: whitespace, line comments and closed block comments are skipped before
\* and between any two tokens of a value, two consecutive hints included, and
\* inserting them never changes the parsed Value.
C18_Original ==
    (pc = "reparsed" /\ previous.ok) => parsed = previous

-----------------------------------------------------------------------------
(* The map protocol: SerializeMap for MapSerializer (src/ser.rs) and MapAccess *)
(* for MapDeserializer (src/de.rs).  A method that takes &mut self gives the   *)
(* object after the call together with its result: [self, result].            *)

\* MapDeserializer::next_key_seed with the seed of a type T
MapAccess_next_key_seed(self, T) ==
    IF self.iter = <<>> THEN [self |-> self, result |-> Ok(None)]
    ELSE Let(Deserialize(T, String(Head(self.iter).key)), LAMBDA key :
        [self |-> [iter |-> Tail(self.iter), value |-> Some(Head(self.iter).value)],
         result |-> IF key.ok THEN Ok(Some(key.v)) ELSE key])

\* MapDeserializer::next_value_seed with the seed of a type T
MapAccess_next_value_seed(self, T) ==
    IF ~self.value.some
    THEN [self |-> self, result |-> ErrorNew("value missing for key")]
    ELSE [self |-> [self EXCEPT !.value = None], result |-> Deserialize(T, self.value.v)]

\* ValueDeserializer::deserialize_map hands back what visitor.visit_map(access)
\* returned; the access went to the visitor by value and is not looked at again
deserialize_map_return(access, visited) == visited

-----------------------------------------------------------------------------
(* MapSpec: a caller drives the map protocol by hand.  Either a Serialize impl *)
(* has a MapSerializer from serialize_map(None) and calls serialize_key,       *)
(* serialize_value and end in any order, or a caller of from_str has a text    *)
(* and a visitor that calls next_key_seed and next_value_seed in any order and *)
(* returns.  A caller stops at the first error (the `?` of the impl).  Every   *)
(* call is recorded in calls with the state of the pending slot before it.     *)

MaxCalls == 4

MapKeySamples ==
    { Data(TString, DString(B(<<"a">>))), Data(TString, DString(B(<<"b">>))),
      Data(TI32, DI32(-7)), Data(TVec(TBool), DVec(<<>>)) }

ElementSamples == { Data(TI32, DI32(1)), Data(TBool, DBool(TRUE)) }

KeySeeds == { TString, TI32 }

ValueSeeds == { TI32, TBool, IgnoredAny }

DictionaryTexts ==
    { B(<<"%", "[", "]">>), B(<<"%", "[", "'", "a", "'", "=", ">", "1", "]">>), B(<<"%", "[", "'", "a", "'", "=", ">", "1", ",", "'", "b", "'", "=", ">", "t", "r", "u", "e", "]">>), B(<<"%", "[", "a", ":", "2", ",", "'", "7", "'", ":", "t", "r", "u", "e", ",", "b", ":", "3", "]">>) }

OtherTexts == { B(<<"[", "1", "]">>), B(<<"v", "o", "i", "d">>) }

FaultyTexts ==
    { B(<<"%", "[", "'", "a", "'", "=", ">">>),
      B(<<"%", "[", "'", "a", "'", " ", "1", "]">>),
      B(<<"%", "[", "1", "=", ">", "2", "]">>),
      B(<<"%", "[", "'", "a", "'", "=", ">", "1", "]", " ", "x">>),
      B(<<"[", "1", " ", "2", "]">>),
      B(<<"/", "*">>),
      B(<<"'", "a">>),
      B(<<"<", "%", " ", "0", "g", " ", "%", ">">>),
      B(<<"0", "x">>),
      B(<<"0", "x", "8", "0", "0", "0", "0", "0", "0", "0", "0", "0", "0", "0", "0", "0", "0", "0">>),
      B(<<"n", "u", "l">>) }

MapTexts == DictionaryTexts \cup OtherTexts \cup FaultyTexts

Call(op, seed, pending, index, result) ==
    [op |-> op, seed |-> seed, pending |-> pending, index |-> index, result |-> result]

MapInit ==
    /\ pc \in {"serialize_map", "from_str"}
    /\ text \in IF pc = "from_str" THEN MapTexts ELSE {<<>>}
    /\ ser = IF pc = "serialize_map" THEN serialize_map(None).v ELSE Idle
    /\ de = Idle
    /\ calls = <<>>
    /\ parser = Idle
    /\ value = Void
    /\ options = DefaultOptions
    /\ parsed = NoResult
    /\ doc = Idle
    /\ previous = NoResult
    /\ data = Idle
    /\ restored = NoResult
    /\ vec = NoResult
    /\ sink = Idle

\* map.serialize_key(&key)
SerializeKey ==
    /\ pc = "serialize_map"
    /\ Len(calls) < MaxCalls
    /\ \E key \in MapKeySamples :
        Let(MapSerializer_serialize_key(ser, key.type, key.x), LAMBDA r :
            /\ ser' = r.self
            /\ calls' = Append(calls, Call("serialize_key", key.type, ser.next_key.some,
                                           Len(ser.entries), r.result))
            /\ pc' = IF r.result.ok THEN pc ELSE "failed")
    /\ UNCHANGED <<parser, de, value, options, text, parsed, doc, previous, data, restored, vec, sink>>

\* map.serialize_value(&value)
SerializeValue ==
    /\ pc = "serialize_map"
    /\ Len(calls) < MaxCalls
    /\ \E x \in ElementSamples :
        Let(MapSerializer_serialize_value(ser, x.type, x.x), LAMBDA r :
            /\ ser' = r.self
            /\ calls' = Append(calls, Call("serialize_value", x.type, ser.next_key.some,
                                           Len(ser.entries), r.result))
            /\ pc' = IF r.result.ok THEN pc ELSE "failed")
    /\ UNCHANGED <<parser, de, value, options, text, parsed, doc, previous, data, restored, vec, sink>>

\* map.end()
SerializeEnd ==
    /\ pc = "serialize_map"
    /\ Let(SerializeMap_end(ser), LAMBDA r :
            /\ calls' = Append(calls, Call("end", Idle, ser.next_key.some,
                                           Len(ser.entries), r))
            /\ value' = IF r.ok THEN r.v ELSE value
            /\ pc' = IF r.ok THEN "ended" ELSE "failed")
    /\ UNCHANGED <<parser, ser, de, options, text, parsed, doc, previous, data, restored, vec, sink>>

\* from_str(&text) up to the call of visitor.visit_map(access)
MapFromStr ==
    /\ pc = "from_str"
    /\ parsed' = de_parse_value(text)
    /\ Let(parsed', LAMBDA p :
        IF ~p.ok
        THEN /\ calls' = <<Call("parse_value", Idle, FALSE, 0, p)>>
             /\ restored' = p
             /\ UNCHANGED <<value, de>>
             /\ pc' = "failed"
        ELSE Let(deserialize_map(p.v), LAMBDA access :
             /\ calls' = <<Call("parse_value", Idle, FALSE, 0, p),
                           Call("deserialize_map", Idle, FALSE, 0, access)>>
             /\ value' = p.v
             /\ de' = IF access.ok THEN access.v ELSE de
             /\ restored' = IF access.ok THEN restored ELSE access
             /\ pc' = IF access.ok THEN "visit_map" ELSE "failed"))
    /\ UNCHANGED <<parser, ser, options, text, doc, previous, data, vec, sink>>

\* access.next_key::<K>() in the visitor
NextKey ==
    /\ pc = "visit_map"
    /\ Len(calls) < MaxCalls + 2
    /\ \E K \in KeySeeds :
        Let(MapAccess_next_key_seed(de, K), LAMBDA r :
            /\ de' = r.self
            /\ calls' = Append(calls, Call("next_key_seed", K, de.value.some,
                                           Len(value.entries) - Len(de.iter), r.result))
            /\ restored' = IF r.result.ok THEN restored ELSE r.result
            /\ pc' = IF r.result.ok THEN pc ELSE "failed")
    /\ UNCHANGED <<parser, ser, value, options, text, parsed, doc, previous, data, vec, sink>>

\* access.next_value::<V>() in the visitor
NextValue ==
    /\ pc = "visit_map"
    /\ Len(calls) < MaxCalls + 2
    /\ \E V \in ValueSeeds :
        Let(MapAccess_next_value_seed(de, V), LAMBDA r :
            /\ de' = r.self
            /\ calls' = Append(calls, Call("next_value_seed", V, de.value.some,
                                           Len(value.entries) - Len(de.iter), r.result))
            /\ restored' = IF r.result.ok THEN restored ELSE r.result
            /\ pc' = IF r.result.ok THEN pc ELSE "failed")
    /\ UNCHANGED <<parser, ser, value, options, text, parsed, doc, previous, data, vec, sink>>

\* the visitor returns Ok with what it collected; from_str returns it
VisitorReturn ==
    /\ pc = "visit_map"
    /\ restored' = deserialize_map_return(de,
            Ok([j \in 1..(Len(calls) - 2) |-> calls[j + 2].result.v]))
    /\ calls' = Append(calls, Call("visit_map", Idle, de.value.some,
                                   Len(value.entries) - Len(de.iter), restored'))
    /\ pc' = "returned"
    /\ UNCHANGED <<parser, ser, de, value, options, text, parsed, doc, previous, data, vec, sink>>

MapNext ==
    \/ SerializeKey
    \/ SerializeValue
    \/ SerializeEnd
    \/ MapFromStr
    \/ NextKey
    \/ NextValue
    \/ VisitorReturn

MapSpec == MapInit /\ [][MapNext]_vars

-----------------------------------------------------------------------------
(* Claims about the map protocol and the position of errors (MapSpec) *)

\* C12: every error of parse_value carries a byte offset (position is Some),
\* and every error the serialization or deserialization bridge produces itself
\* (type mismatch, dictionary key, key/value protocol) carries none
C12_ErrorPositions ==
    \A j \in DOMAIN calls :
        ~calls[j].result.ok =>
            (calls[j].result.position.some <=> calls[j].op = "parse_value")

\* from_str parsed the text, and the bridge then refused a value for its type
C12_Witness ==
    /\ pc = "failed"
    /\ Len(calls) >= 3
    /\ calls[1].op = "parse_value" /\ calls[1].result.ok
    /\ calls[Len(calls)].op = "next_value_seed"
    /\ calls[Len(calls)].result = ErrorNew("expected bool")

\* C13: in the map serializer, serialize_value with no pending key fails with an
\* error, and serialize_key while a key is already pending fails with an error
C13_Original ==
    \A j \in DOMAIN calls :
        /\ (calls[j].op = "serialize_value" /\ ~calls[j].pending) => ~calls[j].result.ok
        /\ (calls[j].op = "serialize_key" /\ calls[j].pending) => ~calls[j].result.ok

\* C14: in the map deserializer each cycle yields one key (a String Value) and
\* then one value, in dictionary order; next_value_seed with no key consumed
\* since the last value fails, and next_key_seed while the previous key's value
\* has not been consumed fails rather than skipping that value
C14_Original ==
    \A j \in DOMAIN calls :
        /\ (calls[j].op = "next_value_seed" /\ ~calls[j].pending) => ~calls[j].result.ok
        /\ (calls[j].op = "next_key_seed" /\ calls[j].pending) => ~calls[j].result.ok
        /\ (calls[j].op = "next_key_seed" /\ ~calls[j].pending
                /\ calls[j].index < Len(value.entries)) =>
              IF calls[j].seed = TString
              THEN calls[j].result = Ok(Some(DString(value.entries[calls[j].index + 1].key)))
              ELSE ~calls[j].result.ok
        /\ (calls[j].op = "next_value_seed" /\ calls[j].pending) =>
              calls[j].result = Deserialize(calls[j].seed, value.entries[calls[j].index].value)

\* C15: the pending slot is never silently discarded: end with a key pending,
\* or a visitor that returns with a value pending, gives a protocol error
C15_Original ==
    \A j \in DOMAIN calls :
        /\ (calls[j].op = "end" /\ calls[j].pending) => ~calls[j].result.ok
        /\ (calls[j].op = "visit_map" /\ calls[j].pending) => ~calls[j].result.ok

-----------------------------------------------------------------------------
(* Claims about the grammar of decimal literals (LexSpec) *)

\* the part after the sign matches digits ['.' digits] [exponent with digits]
MatchesDecimalGrammar(d) ==
    /\ d.body # <<>>
    /\ (d.tail # <<>> /\ d.tail[1] = 46) => (Len(d.tail) >= 2 /\ d.tail[2] \in 48..57)

\* C21: after its optional sign a decimal literal is accepted only if it matches
\* digits ['.' digits] [('e'|'E') ['+'|'-'] digits], with a digit before any '.'
\* and a digit after a '.'; an exponent marker followed by no digit is an error
\* at the offset just past the marker and its optional sign
C21_Original ==
    /\ (pc = "parsed" /\ doc.kind = "decimal" /\ doc.head \o doc.body \o doc.tail # <<>>) =>
            (parsed.ok <=> MatchesDecimalGrammar(doc))
    /\ (pc = "parsed" /\ doc.kind = "exponent") =>
            parsed = ErrorWithPosition("expected exponent digits",
                        FragmentStart(doc) + Len(doc.head) + Len(doc.body))

-----------------------------------------------------------------------------
(* ConvertSpec: a caller converts one typed value with to_value and back with  *)
(* from_value, or reads one Value with from_value as a target type of its      *)
(* choice (doc is the target type).                                            *)

\* u64 values with the f64 nearest to each: 0, 42, i64::MAX, 2^63, 9.3e18, 10^19
\* and u64::MAX
U64Samples ==
    { [v |-> <<0>>, real |-> Finite(FALSE, <<0>>, 0)],
      [v |-> <<4, 2>>, real |-> Finite(FALSE, <<4, 2>>, 0)],
      [v |-> I64MaxMag, real |-> Finite(FALSE, <<9, 2, 2, 3, 3, 7, 2, 0, 3, 6, 8, 5, 4, 7, 7, 6>>, 3)],
      [v |-> I64MinMag, real |-> Finite(FALSE, <<9, 2, 2, 3, 3, 7, 2, 0, 3, 6, 8, 5, 4, 7, 7, 6>>, 3)],
      [v |-> <<9, 3>> \o Repeat(0, 17), real |-> Finite(FALSE, <<9, 3>>, 17)],
      [v |-> <<1>> \o Repeat(0, 19), real |-> Finite(FALSE, <<1>>, 19)],
      [v |-> U64MaxMag, real |-> Finite(FALSE, <<1, 8, 4, 4, 6, 7, 4, 4, 0, 7, 3, 7, 0, 9, 5, 5, 2>>, 3)] }

IntegerData ==
    { Data(TInt("i8"), DI8(n)) : n \in {-128, -1, 0, 127} }
    \cup { Data(TInt("i16"), DI16(n)) : n \in {-32768, 0, 32767} }
    \cup { Data(TI32, DI32(n)) : n \in ScoreSamples }
    \cup { Data(TInt("i64"), DI64(n)) : n \in IntegerSamples }
    \cup { Data(TInt("u8"), DU8(n)) : n \in {0, 255} }
    \cup { Data(TInt("u16"), DU16(n)) : n \in {0, 65535} }
    \cup { Data(TInt("u32"), DU32(n)) : n \in { <<0>>, <<7>>, IntLimits("u32").max } }
    \cup { Data(TU64, DU64(s.v)) : s \in U64Samples }

\* keys of every kind, each with the text it is to give as a dictionary key
KeyTable ==
    { [type |-> TBool, x |-> DBool(TRUE), text |-> Some(B(<<"t", "r", "u", "e">>))],
      [type |-> TBool, x |-> DBool(FALSE), text |-> Some(B(<<"f", "a", "l", "s", "e">>))],
      [type |-> TInt("i8"), x |-> DI8(-128), text |-> Some(B(<<"-", "1", "2", "8">>))],
      [type |-> TI32, x |-> DI32(0), text |-> Some(B(<<"0">>))],
      [type |-> TInt("i64"), x |-> DI64(I64(TRUE, I64MinMag)),
       text |-> Some(B(<<"-", "9", "2", "2", "3", "3", "7", "2", "0", "3", "6", "8", "5", "4", "7", "7", "5", "8", "0", "8">>))],
      [type |-> TInt("u16"), x |-> DU16(65535), text |-> Some(B(<<"6", "5", "5", "3", "5">>))],
      [type |-> TU64, x |-> DU64(U64MaxMag), text |-> Some(B(<<"1", "8", "4", "4", "6", "7", "4", "4", "0", "7", "3", "7", "0", "9", "5", "5", "1", "6", "1", "5">>))],
      [type |-> TF64, x |-> DF64(Finite(FALSE, <<1, 5>>, -1)), text |-> Some(B(<<"1", ".", "5">>))],
      [type |-> TF64, x |-> DF64(Finite(TRUE, <<3>>, 2)), text |-> Some(B(<<"-", "3", "0", "0">>))],
      [type |-> TF64, x |-> DF64(NaN), text |-> Some(B(<<"N", "a", "N">>))],
      [type |-> TChar, x |-> DChar(120), text |-> Some(B(<<"x">>))],
      [type |-> TString, x |-> DString(B(<<"a">>)), text |-> Some(B(<<"a">>))],
      [type |-> TString, x |-> DString(<<>>), text |-> Some(<<>>)],
      [type |-> TBytes, x |-> DBytes(<<97>>), text |-> None],
      [type |-> TVec(TString), x |-> DVec(<<DString(B(<<"a">>))>>), text |-> None],
      [type |-> TMap(TI32), x |-> DMap(<<>>), text |-> None],
      [type |-> SampleStruct, x |-> DStruct(<<DString(B(<<"a">>)), DI32(0), DVec(<<>>)>>),
       text |-> None],
      [type |-> TOption(TString), x |-> DOption(None), text |-> None],
      [type |-> TOption(TString), x |-> DOption(Some(DString(B(<<"a">>)))), text |-> None],
      [type |-> TUnit, x |-> DUnit, text |-> None],
      [type |-> TUnitStruct, x |-> DUnit, text |-> None],
      [type |-> SampleEnum, x |-> DEnum(1, <<>>), text |-> None],
      [type |-> SampleEnum, x |-> DEnum(2, <<DString(B(<<"a">>))>>), text |-> None] }

\* a map with the given keys and the values 1, 2, ...
MapOf(keys) ==
    Data(TMap(TI32),
         DMap([i \in DOMAIN keys |-> [key |-> Data(keys[i].type, keys[i].x), value |-> DI32(i)]]))

\* up to two distinct keys
MapKeyLists == { keys \in SeqsUpTo(KeyTable, 2) : IsInjective(keys) }

MapData == { MapOf(keys) : keys \in MapKeyLists }

\* optional and unit-like values, each with the Value it is to give
OptionTable ==
    { [type |-> TOption(TI32), x |-> DOption(None), expect |-> Void],
      [type |-> TOption(TI32), x |-> DOption(Some(DI32(5))),
       expect |-> Integer(I64(FALSE, <<5>>))],
      [type |-> TOption(TString), x |-> DOption(Some(DString(B(<<"a">>)))), expect |-> String(B(<<"a">>))],
      [type |-> TOption(TOption(TBool)), x |-> DOption(Some(DOption(None))), expect |-> Void],
      [type |-> TOption(TOption(TBool)), x |-> DOption(Some(DOption(Some(DBool(TRUE))))),
       expect |-> Bool(TRUE)],
      [type |-> TOption(TVec(TOption(TI32))),
       x |-> DOption(Some(DVec(<<DOption(None), DOption(Some(DI32(1)))>>))),
       expect |-> Array(<<Void, Integer(I64(FALSE, <<1>>))>>)],
      [type |-> TOption(TUnit), x |-> DOption(Some(DUnit)), expect |-> Void],
      [type |-> TUnit, x |-> DUnit, expect |-> Void],
      [type |-> TUnitStruct, x |-> DUnit, expect |-> Void] }

OptionData == { Data(o.type, o.x) : o \in OptionTable }

OptionTargets == { TOption(TI32), TOption(TBool), TOption(TOption(TI32)), TOption(TUnit) }

ConvertData ==
    IntegerData
    \cup MapData
    \cup OptionData
    \cup { Data(TF64, DF64(x)) : x \in RealSamples }
    \cup { Data(TBool, DBool(b)) : b \in BOOLEAN }
    \cup { Data(TString, DString(str)) : str \in { <<>>, B(<<"a">>) } }

\* Integers around the limits of the narrower types
SourceIntegers ==
    IntegerSamples
    \cup { I64(neg, mag) : neg \in BOOLEAN,
                           mag \in { <<1, 2, 7>>, <<1, 2, 8>>, <<1, 2, 9>>, <<2, 5, 5>>, <<2, 5, 6>>,
                                     <<6, 5, 5, 3, 6>>, I32MinMag, IntLimits("u32").max,
                                     <<4, 2, 9, 4, 9, 6, 7, 2, 9, 6>> } }

\* the shapes an enum target can be given, each with the value SampleEnum reads
\* from it (None: an error)
EnumTable ==
    { [source |-> String(B(<<"U", "n", "i", "t">>)), expect |-> Some(DEnum(1, <<>>))],
      [source |-> String(B(<<"N", "e", "w", "t", "y", "p", "e">>)), expect |-> None],
      [source |-> String(B(<<"T", "u", "p", "l", "e">>)), expect |-> None],
      [source |-> String(B(<<"S", "t", "r", "u", "c", "t">>)), expect |-> None],
      [source |-> String(B(<<"N", "o", "p", "e">>)), expect |-> None],
      [source |-> Dictionary(<<Entry(B(<<"U", "n", "i", "t">>), Void)>>), expect |-> None],
      [source |-> Dictionary(<<Entry(B(<<"U", "n", "i", "t">>), Array(<<>>))>>), expect |-> None],
      [source |-> Dictionary(<<Entry(B(<<"N", "e", "w", "t", "y", "p", "e">>), String(B(<<"a">>)))>>),
       expect |-> Some(DEnum(2, <<DString(B(<<"a">>))>>))],
      [source |-> Dictionary(<<Entry(B(<<"N", "e", "w", "t", "y", "p", "e">>), Bool(TRUE))>>), expect |-> None],
      [source |-> Dictionary(<<Entry(B(<<"C", "o", "u", "n", "t">>), Integer(I64(FALSE, <<5>>)))>>),
       expect |-> Some(DEnum(3, <<DU64(<<5>>)>>))],
      [source |-> Dictionary(<<Entry(B(<<"T", "u", "p", "l", "e">>), Array(<<Integer(I64(FALSE, <<1>>)), Bool(TRUE)>>))>>),
       expect |-> Some(DEnum(4, <<DI32(1), DBool(TRUE)>>))],
      [source |-> Dictionary(<<Entry(B(<<"T", "u", "p", "l", "e">>), Integer(I64(FALSE, <<1>>)))>>), expect |-> None],
      [source |-> Dictionary(<<Entry(B(<<"T", "u", "p", "l", "e">>),
                        Dictionary(<<Entry(B(<<"0">>), Integer(I64(FALSE, <<1>>))),
                                     Entry(B(<<"1">>), Bool(TRUE))>>))>>),
       expect |-> None],
      [source |-> Dictionary(<<Entry(B(<<"S", "t", "r", "u", "c", "t">>),
                        Dictionary(<<Entry(B(<<"x">>), Integer(I64(TRUE, <<7>>))),
                                     Entry(B(<<"f", "l", "a", "g", "s">>), Array(<<Bool(FALSE)>>))>>))>>),
       expect |-> Some(DEnum(5, <<DI32(-7), DVec(<<DBool(FALSE)>>)>>))],
      [source |-> Dictionary(<<Entry(B(<<"S", "t", "r", "u", "c", "t">>),
                        Array(<<Integer(I64(TRUE, <<7>>)), Array(<<Bool(FALSE)>>)>>))>>),
       expect |-> None],
      [source |-> Dictionary(<<Entry(B(<<"S", "t", "r", "u", "c", "t">>), Void)>>), expect |-> None],
      [source |-> Dictionary(<<Entry(B(<<"N", "o", "p", "e">>), Void)>>), expect |-> None],
      [source |-> Dictionary(<<Entry(B(<<"U", "n", "i", "t">>), Void), Entry(B(<<"N", "e", "w", "t", "y", "p", "e">>), String(B(<<"a">>)))>>),
       expect |-> None],
      [source |-> Dictionary(<<Entry(B(<<"N", "e", "w", "t", "y", "p", "e">>), String(B(<<"a">>))), Entry(B(<<"x">>), Void)>>),
       expect |-> None] }

EnumSources == { row.source : row \in EnumTable }

SourceValues ==
    Leaves
    \cup { Integer(n) : n \in SourceIntegers }
    \cup { Array(<<>>), Array(<<Integer(I64(FALSE, <<1>>))>>), Dictionary(<<>>),
           Dictionary(<<[key |-> B(<<"a">>), value |-> Integer(I64(FALSE, <<1>>))]>>) }
    \cup EnumSources

SignedTargets == { TInt("i8"), TInt("i16"), TI32, TInt("i64") }
UnsignedTargets == { TInt("u8"), TInt("u16"), TInt("u32"), TU64 }

Targets == SignedTargets \cup UnsignedTargets \cup { TF64, TBool, TString }
           \cup OptionTargets \cup { SampleEnum }

ConvertInit ==
    /\ pc \in {"data", "value"}
    /\ data \in IF pc = "data" THEN ConvertData ELSE {Idle}
    /\ value \in IF pc = "value" THEN { Ok(v) : v \in SourceValues } ELSE {NoResult}
    /\ doc = Idle
    /\ restored = NoResult
    /\ options = DefaultOptions
    /\ text = <<>>
    /\ parsed = NoResult
    /\ previous = NoResult
    /\ vec = NoResult
    /\ sink = Idle
    /\ ser = Idle
    /\ de = Idle
    /\ calls = <<>>
    /\ parser = Idle

\* value = to_value(&data)
ConvertToValue ==
    /\ pc = "data"
    /\ value' = to_value(data.type, data.x)
    /\ pc' = "to_value"
    /\ UNCHANGED <<parser, ser, de, calls, options, text, parsed, doc, previous, data, restored, vec, sink>>

\* restored = from_value::<T>(value) for the type of the data (the maps of the
\* model are only written)
ConvertBack ==
    /\ pc = "to_value"
    /\ value.ok
    /\ data \notin MapData
    /\ doc' = data.type
    /\ restored' = from_value(data.type, value.v)
    /\ pc' = "restored"
    /\ UNCHANGED <<parser, ser, de, calls, value, options, text, parsed, previous, data, vec, sink>>

\* restored = from_value::<T>(value) for a target type T
ConvertFromValue ==
    /\ pc = "value"
    /\ \E T \in Targets :
        /\ doc' = T
        /\ restored' = from_value(T, value.v)
    /\ pc' = "from_value"
    /\ UNCHANGED <<parser, ser, de, calls, value, options, text, parsed, previous, data, vec, sink>>

ConvertNext ==
    \/ ConvertToValue
    \/ ConvertBack
    \/ ConvertFromValue

ConvertSpec == ConvertInit /\ [][ConvertNext]_vars

-----------------------------------------------------------------------------
(* Claims about numbers in the bridges (ConvertSpec) *)

\* the i64 as a small integer
SmallInt(n) == IF n.neg THEN NegDigitsToInt(n.mag, 0) ELSE DigitsToNat(n.mag, 0)

\* C22: serializing a u64 v yields Integer(v) when v <= 2^63 - 1 and the Real
\* nearest to v when v > 2^63 - 1; it never fails and never yields a negative
\* Integer; every narrower integer type yields the Integer of the same value
C22_UnsignedDegrade ==
    (pc = "to_value" /\ data \in IntegerData) =>
        /\ value.ok
        /\ ~(value.v.tag = "Integer" /\ value.v.n.neg /\ data.type \in UnsignedTargets)
        /\ data.type = TU64 =>
            \E s \in U64Samples :
                /\ s.v = data.x.u64
                /\ value.v = IF DecLeq(s.v, I64MaxMag) THEN Integer(I64(FALSE, s.v))
                             ELSE Real(s.real)
        /\ data.type # TU64 => value.v.tag = "Integer"
        /\ data.type = TInt("i8") => SmallInt(value.v.n) = data.x.i8
        /\ data.type = TInt("i16") => SmallInt(value.v.n) = data.x.i16
        /\ data.type = TI32 => value.v.n = i32_as_i64(data.x.i32)
        /\ data.type = TInt("u8") => SmallInt(value.v.n) = data.x.u8
        /\ data.type = TInt("u16") => SmallInt(value.v.n) = data.x.u16
        /\ data.type = TInt("u32") => value.v.n = I64(FALSE, data.x.u32)

\* u64::MAX has been serialized to the Real 2^64
C22_Witness ==
    /\ pc = "to_value"
    /\ data = Data(TU64, DU64(U64MaxMag))
    /\ value.ok
    /\ value.v.tag = "Real"
    /\ value.v.x.exp = 3

\* C24: a signed integer target succeeds only on an Integer (a Real is rejected,
\* never truncated), an unsigned target only on a non-negative Integer, a float
\* target on a Real and on an Integer (widened) and on no other tag; a rejected
\* case is an error with no value
C24_NumericTargets ==
    (pc = "from_value" /\ doc \in SignedTargets \cup UnsignedTargets \cup {TF64}) =>
        /\ doc \in SignedTargets => (restored.ok => value.v.tag = "Integer")
        /\ doc = TInt("i64") =>
                (value.v.tag = "Integer" => restored = Ok(DI64(value.v.n)))
        /\ doc \in UnsignedTargets =>
                (restored.ok => (value.v.tag = "Integer" /\ ~value.v.n.neg))
        /\ doc = TU64 =>
                ((value.v.tag = "Integer" /\ ~value.v.n.neg) => restored = Ok(DU64(value.v.n.mag)))
        /\ doc = TF64 =>
                /\ restored.ok <=> value.v.tag \in {"Real", "Integer"}
                /\ value.v.tag = "Real" => restored = Ok(DF64(value.v.x))
                /\ value.v = Integer(I64(TRUE, <<1, 2>>)) =>
                        restored = Ok(DF64(Finite(TRUE, <<1, 2>>, 0)))
                /\ value.v = Integer(I64(TRUE, I64MinMag)) =>
                        restored = Ok(DF64(Finite(TRUE,
                            <<9, 2, 2, 3, 3, 7, 2, 0, 3, 6, 8, 5, 4, 7, 7, 6>>, 3)))
        /\ ~restored.ok => "v" \notin DOMAIN restored

\* the Real 1.0 has been refused by an i64 target
C24_Witness ==
    /\ pc = "from_value"
    /\ doc = TInt("i64")
    /\ value.v = Real(Finite(FALSE, <<1>>, 0))
    /\ restored = ErrorNew("expected integer")

-----------------------------------------------------------------------------
(* Claims about map keys (ConvertSpec) *)

-----------------------------------------------------------------------------
(* Claims about optional and unit values (ConvertSpec) *)

\* a Null somewhere in the value
RECURSIVE HasNull(_)
HasNull(v) ==
    CASE v.tag = "Null" -> TRUE
      [] v.tag = "Array" -> \E i \in DOMAIN v.items : HasNull(v.items[i])
      [] v.tag = "Dictionary" -> \E i \in DOMAIN v.entries : HasNull(v.entries[i].value)
      [] OTHER -> FALSE

\* C26: an absent optional, a unit and a unit struct serialize to Void and the
\* bridge never produces Null; a present optional serializes to the Value of its
\* content; an optional target reads Void and Null as absent and every other
\* Value as present, with the content deserialized from that same Value
C26_OptionalVoid ==
    /\ (pc = "to_value" /\ value.ok) => ~HasNull(value.v)
    /\ (pc = "to_value" /\ data \in OptionData) =>
            \E o \in OptionTable : data = Data(o.type, o.x) /\ value = Ok(o.expect)
    /\ (pc = "from_value" /\ doc \in OptionTargets) =>
            IF value.v.tag \in {"Void", "Null"}
            THEN restored = Ok(DOption(None))
            ELSE /\ restored.ok <=> from_value(doc.elem, value.v).ok
                 /\ restored.ok => restored = Ok(DOption(Some(from_value(doc.elem, value.v).v)))
                 /\ (doc = TOption(TI32) /\ value.v = Integer(I64(TRUE, <<1, 2>>))) =>
                        restored = Ok(DOption(Some(DI32(-12))))
                 /\ (doc = TOption(TBool) /\ value.v.tag # "Bool") =>
                        restored = ErrorNew("expected bool")

\* Null has been read as an absent optional
C26_Witness ==
    /\ pc = "from_value"
    /\ doc = TOption(TI32)
    /\ value.v = Null
    /\ restored = Ok(DOption(None))

-----------------------------------------------------------------------------
(* Claims about enum targets (ConvertSpec) *)

\* the variant of SampleEnum with this name, 0 for no variant
VariantNamed(name) ==
    IF \E i \in DOMAIN SampleEnum.variants : SampleEnum.variants[i].name = name
    THEN CHOOSE i \in DOMAIN SampleEnum.variants : SampleEnum.variants[i].name = name
    ELSE 0

ShapeNamed(name) ==
    IF VariantNamed(name) = 0 THEN "none" ELSE SampleEnum.variants[VariantNamed(name)].shape

\* C25: an enum target accepts only a String (read as a variant without payload)
\* or a Dictionary with exactly one entry (the variant's name and its payload);
\* a Dictionary with no entry or several and every other tag is an error; in a
\* single-entry Dictionary a unit variant is an error, a tuple variant needs an
\* Array and a struct variant needs a Dictionary; a bare String naming a variant
\* with a payload is an error
C25_EnumTargets ==
    (pc = "from_value" /\ doc = SampleEnum) =>
        /\ value.v.tag \notin {"String", "Dictionary"} => restored = ErrorNew("expected enum")
        /\ (value.v.tag = "Dictionary" /\ Len(value.v.entries) # 1) =>
                restored = ErrorNew("enum representation must contain exactly one entry")
        /\ value.v.tag = "String" =>
                /\ restored.ok <=> ShapeNamed(value.v.s) = "unit"
                /\ restored.ok => restored = Ok(DEnum(VariantNamed(value.v.s), <<>>))
        /\ (value.v.tag = "Dictionary" /\ Len(value.v.entries) = 1) =>
                LET shape == ShapeNamed(value.v.entries[1].key)
                    payload == value.v.entries[1].value
                IN  /\ shape = "unit" => restored = ErrorNew("expected unit variant")
                    /\ (shape = "tuple" /\ payload.tag # "Array") =>
                            restored = ErrorNew("tuple variant expected an array")
                    /\ (shape = "struct" /\ payload.tag # "Dictionary") =>
                            restored = ErrorNew("struct variant expected a dictionary")
                    /\ shape = "none" => ~restored.ok
                    /\ restored.ok => restored.v.variant = VariantNamed(value.v.entries[1].key)
        /\ \A row \in EnumTable : value.v = row.source =>
                IF row.expect.some THEN restored = Ok(row.expect.v) ELSE ~restored.ok

\* a single-entry Dictionary naming the unit variant has been refused
C25_Witness ==
    /\ pc = "from_value"
    /\ doc = SampleEnum
    /\ value.v = Dictionary(<<Entry(B(<<"U", "n", "i", "t">>), Void)>>)
    /\ restored = ErrorNew("expected unit variant")

-----------------------------------------------------------------------------
(* Claims about octet literals (LexSpec) *)

OctetInterior(d) == CHOOSE i \in OctetInteriors : i.hex = d.body
OctetEnding(d) == CHOOSE e \in OctetEndings : e.end = d.tail

\* C27: an octet literal parses to Octet(bytes) exactly when its interior is
\* pairs of hex digits of either case, with whitespace around the pairs, up to
\* "%>"; each pair is one byte, the first digit its high nibble, in order. A byte
\* that is neither a hex digit nor whitespace, a pair split by whitespace, an odd
\* number of digits or the end of the input before "%>" is an error at the byte
\* at which a hex digit was expected
C27_OctetLiteral ==
    (pc = "parsed" /\ doc.kind = "octets") =>
        IF OctetEnding(doc).closed
        THEN parsed.ok /\ parsed.v = InContext(doc, Octet(OctetInterior(doc).bytes))
        ELSE /\ ~parsed.ok
             /\ parsed.position = Some(FragmentStart(doc) + 2 + Len(doc.body)
                                       + OctetEnding(doc).at)
             /\ parsed.message = IF OctetEnding(doc).eof /\ doc.after = <<>>
                                 THEN "unexpected end of input"
                                 ELSE "invalid octet digit"

\* a pair split by whitespace has been refused at the blank
C27_Witness ==
    /\ pc = "parsed"
    /\ doc.kind = "octets"
    /\ doc.body = B(<<" ", "0", "A", " ", "f", "F", " ">>)
    /\ doc.tail = B(<<"0", " ", "1", "%", ">">>)
    /\ doc.before = ArrayContext.before
    /\ parsed = ErrorWithPosition("invalid octet digit", 3 + 2 + 7 + 1)

-----------------------------------------------------------------------------
(* Claims about array and dictionary literals (LexSpec) *)

\* the row of tokens of a document
RowOf(d) ==
    (CHOOSE shape \in ListShapes(IF d.kind = "array" THEN ArrayTokens ELSE DictTokens) :
        RowText(shape.row, shape.sep) = d.body).row

\* elements separated by single commas, with at most one comma after the last
CommaSeparated(row) == \A i \in DOMAIN row : row[i].comma <=> i % 2 = 0

\* the elements of a row, in order
RECURSIVE Elements(_)
Elements(row) ==
    IF row = <<>> THEN <<>>
    ELSE IF row[1].comma THEN Elements(Tail(row))
    ELSE <<row[1].v>> \o Elements(Tail(row))

\* C28: an array and a dictionary literal take elements separated by commas with
\* at most one comma after the last one ("[1,]" is "[1]"); a leading comma, two
\* commas in a row or two elements without a comma are errors; a dictionary entry
\* takes "=>" or ":" after its key, and a key is a quoted string or an identifier
\* [A-Za-z_][A-Za-z0-9_]*
C28_ListLiterals ==
    /\ (pc = "parsed" /\ doc.kind = "array") =>
            IF CommaSeparated(RowOf(doc))
            THEN parsed.ok /\ parsed.v = Array(Elements(RowOf(doc)))
            ELSE ~parsed.ok
    /\ (pc = "parsed" /\ doc.kind = "dictionary") =>
            IF CommaSeparated(RowOf(doc))
            THEN parsed.ok /\ parsed.v = Dictionary(Elements(RowOf(doc)))
            ELSE ~parsed.ok
    /\ (pc = "parsed" /\ doc.kind = "key") =>
            LET k == CHOOSE k \in KeyForms : k.form = doc.body
            IN  IF k.key.some
                THEN parsed.ok /\ parsed.v = Dictionary(<<Entry(k.key.v, Integer(I64(FALSE, <<1>>)))>>)
                ELSE ~parsed.ok

\* an array with a comma after its last element has been read
C28_Witness ==
    /\ pc = "parsed"
    /\ doc.kind = "array"
    /\ doc.body = B(<<"1", ",", "'", "x", "'", ",">>)
    /\ parsed.ok
    /\ parsed.v = Array(<<Integer(I64(FALSE, <<1>>)), String(B(<<"x">>))>>)

-----------------------------------------------------------------------------
(* CursorSpec: parse_str step by step.  parser.position is the cursor of the    *)
(* Parser, parser.stack the functions of the Parser that are running (the last  *)
(* frame is the running one) and parser.ret the Result of the call that         *)
(* returned last.  A frame is at a place of its function (at), with its         *)
(* collection so far (acc), its other locals (aux) and, for every loop of the   *)
(* function, the cursor at the start of the last round (mark).  A step is one   *)
(* round of a loop, or the code between two calls.                              *)

NoMarks == [at \in {} |-> 0]

Frame(fn, at, aux) == [fn |-> fn, at |-> at, acc |-> <<>>, aux |-> aux, mark |-> NoMarks]

top(p) == p.stack[Len(p.stack)]

WithTop(p, frame) == [p EXCEPT !.stack[Len(p.stack)] = frame]

\* the running function goes on at another place
At(p, at) == WithTop(p, [top(p) EXCEPT !.at = at])

Acc(p, acc) == WithTop(p, [top(p) EXCEPT !.acc = acc])

Aux(p, aux) == WithTop(p, [top(p) EXCEPT !.aux = aux])

\* a round of the loop at this place starts: the cursor is noted
Round(p) ==
    WithTop(p, [top(p) EXCEPT !.mark =
        [at \in DOMAIN top(p).mark \cup {top(p).at} |->
            IF at = top(p).at THEN p.position ELSE top(p).mark[at]]])

Move_nowhere(p, n) == p

\* self.position += n
Move(p, n) == [p EXCEPT !.position = @ + n]

\* self.position = pos
MoveTo(p, pos) == [p EXCEPT !.position = pos]

\* a call: the callee runs, the caller goes on at `at` when it returns
Invoke(p, at, frame) == [At(p, at) EXCEPT !.stack = Append(@, frame)]

\* return r
Return(p, r) == [p EXCEPT !.stack = SubSeq(@, 1, Len(@) - 1), !.ret = r]

Fail_after(p, message) == Return(p, ErrorWithPosition(message, p.position + 1))

\* return Err(Error::with_position(message, self.position))
Fail(p, message) == Return(p, ErrorWithPosition(message, p.position))

\* the statement that leaves a pure step of the model: its value is returned
\* with the cursor where the step left it, its error is returned as it is
Leave(p, r) == IF r.ok THEN Return(MoveTo(p, r.pos), Ok(r.v)) ELSE Return(p, r)

\* the places that are the head of a loop
LoopHeads ==
    { <<"skip_ws", "loop">>, <<"skip_ws", "line">>, <<"skip_inline_ws", "loop">>,
      <<"consume_const_hint", "loop">>, <<"consume_digits", "loop">>,
      <<"parse_array", "loop">>, <<"parse_dictionary", "loop">>,
      <<"parse_string", "loop">>, <<"read_hex_digits", "loop">>,
      <<"parse_octet", "loop">>, <<"parse_number", "int_digits">>,
      <<"parse_number", "frac_digits">>, <<"parse_number", "exp_digits">> }

\* the running function takes the step `next` of the parser; parse_str has
\* returned when no function is left
Running(fn) ==
    /\ pc = "parsing"
    /\ parser.stack # <<>>
    /\ parser.ret.ok
    /\ top(parser).fn = fn

Entered ==
    IF <<top(parser).fn, top(parser).at>> \in LoopHeads THEN Round(parser) ELSE parser

Step(next) ==
    /\ parser' = next
    /\ parsed' = IF next.stack = <<>> THEN next.ret ELSE parsed
    /\ pc' = IF next.stack = <<>> THEN "done" ELSE "parsing"
    /\ UNCHANGED <<ser, de, calls, value, options, text, doc, previous, data, restored,
                   vec, sink>>

\* parse_str
StepParseStr ==
    /\ Running("parse_str")
    /\ Let(Entered, LAMBDA p :
       Step(CASE top(p).at = "start" -> Invoke(p, "value", Frame("skip_ws", "loop", Idle))
              [] top(p).at = "value" -> Invoke(p, "trailing", Frame("parse_value", "start", Idle))
              [] top(p).at = "trailing" ->
                    Invoke(Acc(p, p.ret.v), "eof", Frame("skip_ws", "loop", Idle))
              [] top(p).at = "eof" ->
                    IF trailing_is_eof(text, p.position) THEN Return(p, Ok(top(p).acc))
                    ELSE Fail(p, "unexpected trailing characters")))

\* Parser::skip_ws: a round of its loop, or a round of the loop of a line comment
StepSkipWs ==
    /\ Running("skip_ws")
    /\ Let(Entered, LAMBDA p :
       Let(peek_char(text, p.position), LAMBDA c :
       Step(IF top(p).at = "loop" THEN
                IF c.ch = -1 THEN Return(p, Ok(Idle))
                ELSE IF is_whitespace(c.ch) THEN Move(p, c.len)
                ELSE IF starts_with(text, p.position, B(<<"/", "/">>)) THEN At(Move(p, 2), "line")
                ELSE IF starts_with(text, p.position, B(<<"/", "*">>)) THEN
                    Let(find_block_end(text, p.position + 2, 0), LAMBDA idx :
                    IF idx >= 0 THEN Move(p, 2 + idx + 2)
                    ELSE Return(Move(p, 2), unterminated_block_comment(p.position + 2)))
                ELSE Return(p, Ok(Idle))
            ELSE IF c.ch = -1 THEN At(p, "loop")
            ELSE IF c.ch = 10 THEN At(Move(p, c.len), "loop")
            ELSE Move(p, c.len))))

\* Parser::skip_inline_ws: a round of its loop
StepSkipInlineWs ==
    /\ Running("skip_inline_ws")
    /\ Let(Entered, LAMBDA p :
       Let(peek_char(text, p.position), LAMBDA c :
       Step(IF c.ch # -1 /\ is_whitespace(c.ch) THEN Move(p, c.len)
            ELSE Return(p, Ok(Idle)))))

\* Parser::consume_const_hint: a round of its loop
StepConsumeConstHint ==
    /\ Running("consume_const_hint")
    /\ Let(Entered, LAMBDA p :
       Step(IF top(p).at = "loop" THEN Invoke(p, "hint", Frame("skip_inline_ws", "loop", Idle))
            ELSE IF starts_with(text, p.position, B(<<"(", "c", "o", "n", "s", "t", ")">>)) THEN At(Move(p, 7), "loop")
            ELSE IF /\ starts_with(text, p.position, B(<<"c", "o", "n", "s", "t">>))
                    /\ bare_const_is_hint(text, p.position + 5) THEN At(Move(p, 5), "loop")
            ELSE Return(p, Ok(Idle))))

\* Parser::consume_digits: a round of its loop; aux is the predicate
StepConsumeDigits ==
    /\ Running("consume_digits")
    /\ Let(Entered, LAMBDA p :
       Step(IF peek_byte(text, p.position) \in top(p).aux THEN Move(p, 1)
            ELSE Return(p, Ok(Idle))))

\* Parser::parse_value
StepParseValue ==
    /\ Running("parse_value")
    /\ Let(Entered, LAMBDA p :
       Let(peek_byte(text, p.position), LAMBDA byte :
       Step(CASE top(p).at = "start" -> Invoke(p, "hint", Frame("skip_ws", "loop", Idle))
              [] top(p).at = "hint" -> Invoke(p, "ws", Frame("consume_const_hint", "loop", Idle))
              [] top(p).at = "ws" -> Invoke(p, "match", Frame("skip_ws", "loop", Idle))
              [] top(p).at = "match" ->
                    IF byte = 91 THEN Invoke(p, "value", Frame("parse_array", "start", Idle))
                    ELSE IF byte = 37 THEN
                        Invoke(p, "value", Frame("parse_dictionary", "start", Idle))
                    ELSE IF byte \in {34, 39} THEN
                        Invoke(p, "string", Frame("parse_string", "start", Idle))
                    ELSE IF byte = 60 /\ starts_with(text, p.position, B(<<"<", "%">>)) THEN
                        Invoke(p, "value", Frame("parse_octet", "start", Idle))
                    ELSE IF byte \in {116, 102, 110, 118, 73, 78} THEN
                        Leave(p, parse_literal(text, p.position))
                    ELSE IF byte \in {43, 45} \/ is_ascii_digit(byte) THEN
                        Invoke(p, "value", Frame("parse_number", "start", Idle))
                    ELSE IF byte # -1 THEN Fail(p, "unexpected token")
                    ELSE Fail(p, "unexpected end of input")
              [] top(p).at = "value" -> Return(p, p.ret)
              [] top(p).at = "string" -> Return(p, Ok(String(p.ret.v))))))

\* Parser::parse_array: the code between two calls of a round of its loop
StepParseArray ==
    /\ Running("parse_array")
    /\ Let(Entered, LAMBDA p :
       Let(peek_byte(text, p.position), LAMBDA byte :
       Step(CASE top(p).at = "start" ->
                    IF byte = 91 THEN At(Move(p, 1), "loop") ELSE Fail(p, "expected '['")
              [] top(p).at = "loop" -> Invoke(p, "close", Frame("skip_ws", "loop", Idle))
              [] top(p).at = "close" ->
                    IF byte = 93 THEN Return(Move(p, 1), Ok(Array(top(p).acc)))
                    ELSE Invoke(p, "item", Frame("parse_value", "start", Idle))
              [] top(p).at = "item" ->
                    Invoke(Acc(p, Append(top(p).acc, p.ret.v)), "comma",
                         Frame("skip_ws", "loop", Idle))
              [] top(p).at = "comma" ->
                    IF byte = 44 THEN At(Move(p, 1), "loop")
                    ELSE IF byte = 93 THEN Return(Move(p, 1), Ok(Array(top(p).acc)))
                    ELSE Fail(p, "expected ',' or ']'"))))

\* Parser::parse_dictionary: the code between two calls of a round of its loop;
\* aux is the key of the entry
StepParseDictionary ==
    /\ Running("parse_dictionary")
    /\ Let(Entered, LAMBDA p :
       Let(peek_byte(text, p.position), LAMBDA byte :
       Step(CASE top(p).at = "start" ->
                    IF byte = 37 THEN Invoke(Move(p, 1), "open", Frame("skip_ws", "loop", Idle))
                    ELSE Fail(p, "expected '%'")
              [] top(p).at = "open" ->
                    IF byte = 91 THEN At(Move(p, 1), "loop") ELSE Fail(p, "expected '['")
              [] top(p).at = "loop" -> Invoke(p, "close", Frame("skip_ws", "loop", Idle))
              [] top(p).at = "close" ->
                    IF byte = 93 THEN Return(Move(p, 1), Ok(Dictionary(top(p).acc)))
                    ELSE Invoke(p, "key", Frame("parse_dict_key", "start", Idle))
              [] top(p).at = "key" ->
                    Invoke(Aux(p, p.ret.v), "arrow", Frame("skip_ws", "loop", Idle))
              [] top(p).at = "arrow" ->
                    IF dict_separator(text, p.position) = -1
                    THEN Fail(p, "expected '=>' after key")
                    ELSE Invoke(MoveTo(p, dict_separator(text, p.position)), "item",
                              Frame("parse_value", "start", Idle))
              [] top(p).at = "item" ->
                    Invoke(Acc(p, IndexMapInsert(top(p).acc, top(p).aux, p.ret.v)), "comma",
                         Frame("skip_ws", "loop", Idle))
              [] top(p).at = "comma" ->
                    IF byte = 44 THEN At(Move(p, 1), "loop")
                    ELSE IF byte = 93 THEN Return(Move(p, 1), Ok(Dictionary(top(p).acc)))
                    ELSE Fail(p, "expected ',' or ']'"))))

\* Parser::parse_dict_key with Parser::parse_identifier; aux is the start of the
\* identifier
StepParseDictKey ==
    /\ Running("parse_dict_key")
    /\ Let(Entered, LAMBDA p :
       Let(peek_byte(text, p.position), LAMBDA byte :
       Step(CASE top(p).at = "start" ->
                    IF byte \in {34, 39} THEN
                        Invoke(p, "key", Frame("parse_string", "start", Idle))
                    ELSE IF is_ident_start(byte) THEN
                        Invoke(Move(Aux(p, p.position), 1), "identifier",
                             Frame("consume_digits", "loop", IdentContinue))
                    ELSE Fail(p, "expected dictionary key")
              [] top(p).at = "key" -> Return(p, p.ret)
              [] top(p).at = "identifier" ->
                    Return(p, Ok(SubSeq(text, top(p).aux + 1, p.position))))))

\* Parser::parse_string: a round of its loop; aux is the quote
StepParseString ==
    /\ Running("parse_string")
    /\ Let(Entered, LAMBDA p :
       Let(peek_char(text, p.position), LAMBDA c :
       Step(CASE top(p).at = "start" ->
                    IF peek_byte(text, p.position) = -1
                    THEN Fail(p, "unexpected end of input")
                    ELSE At(Move(Aux(p, peek_byte(text, p.position)), 1), "loop")
              [] top(p).at = "loop" ->
                    IF c.ch = -1 THEN Fail(p, "unterminated string")
                    ELSE IF c.ch = top(p).aux THEN Return(Move(p, c.len), Ok(top(p).acc))
                    ELSE IF c.ch = 92 THEN
                        Invoke(Move(p, c.len), "escape", Frame("parse_escape", "start", Idle))
                    ELSE Move(Acc(p, Append(top(p).acc, c.ch)), c.len)
              [] top(p).at = "escape" ->
                    At(Acc(p, Append(top(p).acc, p.ret.v)), "loop"))))

\* the character of an escape that stands for another one
escaped_char(ch) ==
    CASE ch = 110 -> 10
      [] ch = 114 -> 13
      [] ch = 116 -> 9
      [] ch = 98 -> 8
      [] ch = 102 -> 12
      [] ch = 48 -> 0
      [] OTHER -> ch

\* Parser::parse_escape
StepParseEscape ==
    /\ Running("parse_escape")
    /\ Let(Entered, LAMBDA p :
       Let(peek_char(text, p.position), LAMBDA c :
       Step(CASE top(p).at = "start" ->
                    IF c.ch = -1 THEN Fail(p, "unterminated escape")
                    ELSE IF c.ch = 120 THEN
                        Invoke(Move(p, c.len), "hex", [Frame("read_hex_digits", "loop", 2) EXCEPT !.acc = 0])
                    ELSE IF c.ch = 117 THEN
                        Invoke(Move(p, c.len), "unicode", [Frame("read_hex_digits", "loop", 4) EXCEPT !.acc = 0])
                    ELSE Return(Move(p, c.len), Ok(escaped_char(c.ch)))
              [] top(p).at = "hex" ->
                    IF is_scalar_value(p.ret.v) THEN Return(p, p.ret)
                    ELSE Fail(p, "invalid hex escape")
              [] top(p).at = "unicode" ->
                    IF is_scalar_value(p.ret.v) THEN Return(p, p.ret)
                    ELSE Fail(p, "invalid unicode escape"))))

\* Parser::read_hex_digits: a round of its loop; aux is the number of digits to
\* read, acc the value (0 at the call)
StepReadHexDigits ==
    /\ Running("read_hex_digits")
    /\ Let(Entered, LAMBDA p :
       Let(peek_byte(text, p.position), LAMBDA digit :
       Step(IF top(p).aux = 0 THEN
                Return(p, Ok(top(p).acc))
            ELSE IF digit = -1 THEN Fail(p, "unexpected end of input")
            ELSE IF hex_value(digit) = -1 THEN Fail(p, "invalid hex digit")
            ELSE Move(Aux(Acc(p, top(p).acc * 16 + hex_value(digit)), top(p).aux - 1), 1))))

\* Parser::parse_octet: a round of its loop; aux is the high digit
StepParseOctet ==
    /\ Running("parse_octet")
    /\ Let(Entered, LAMBDA p :
       Let(read_octet_digit(text, p.position), LAMBDA digit :
       Step(CASE top(p).at = "start" ->
                    IF starts_with(text, p.position, B(<<"<", "%">>)) THEN At(Move(p, 2), "loop")
                    ELSE Fail(p, "expected '<%'")
              [] top(p).at = "loop" ->
                    Invoke(p, "close", Frame("skip_inline_ws", "loop", Idle))
              [] top(p).at = "close" ->
                    IF starts_with(text, p.position, B(<<"%", ">">>))
                    THEN Return(Move(p, 2), Ok(Octet(top(p).acc)))
                    ELSE IF digit.ok THEN At(MoveTo(Aux(p, digit.v), digit.pos), "low")
                    ELSE Return(p, digit)
              [] top(p).at = "low" ->
                    IF digit.ok
                    THEN At(MoveTo(Acc(p, Append(top(p).acc, octet_byte(top(p).aux, digit.v))),
                                   digit.pos), "loop")
                    ELSE Return(p, digit))))

\* the locals of parse_number
NumberLocals(start, negative) ==
    [start |-> start, negative |-> negative, digits_start |-> 0, seen_digit |-> FALSE,
     is_float |-> FALSE, exp_digits |-> 0]

\* Parser::parse_number: a round of one of its loops, or the code between them
StepParseNumber ==
    /\ Running("parse_number")
    /\ Let(Entered, LAMBDA p :
       Let(peek_byte(text, p.position), LAMBDA byte :
       Let(top(p).aux, LAMBDA locals :
       Step(CASE top(p).at = "start" ->
                    IF starts_with(text, p.position, B(<<"-", "I", "n", "f", "i", "n", "i", "t", "y">>)) THEN
                        Return(Move(p, 9), Ok(Real(Infinity(TRUE))))
                    ELSE IF starts_with(text, p.position, B(<<"+", "I", "n", "f", "i", "n", "i", "t", "y">>)) THEN
                        Return(Move(p, 9), Ok(Real(Infinity(FALSE))))
                    ELSE IF \/ starts_with(text, p.position, B(<<"+", "N", "a", "N">>))
                            \/ starts_with(text, p.position, B(<<"-", "N", "a", "N">>)) THEN
                        Return(Move(p, 4), Ok(Real(NaN)))
                    ELSE At(Move(Aux(p, NumberLocals(p.position, byte = 45)),
                                 IF byte \in {43, 45} THEN 1 ELSE 0), "radix")
              [] top(p).at = "radix" ->
                    IF starts_with(text, p.position, B(<<"0", "x">>)) \/ starts_with(text, p.position, B(<<"0", "X">>))
                    THEN Invoke(Move(Aux(p, [locals EXCEPT !.digits_start = p.position + 2]), 2),
                              "hex", Frame("consume_digits", "loop", HexDigits))
                    ELSE At(p, "int_digits")
              [] top(p).at = "hex" ->
                    Leave(p, parse_hex_number(text, locals.start, locals.negative,
                                              locals.digits_start))
              [] top(p).at = "int_digits" ->
                    IF is_ascii_digit(byte)
                    THEN Move(Aux(p, [locals EXCEPT !.seen_digit = TRUE]), 1)
                    ELSE IF byte = 46
                    THEN At(Move(Aux(p, [locals EXCEPT !.is_float = TRUE]), 1), "frac_digits")
                    ELSE At(p, "exponent")
              [] top(p).at = "frac_digits" ->
                    IF is_ascii_digit(byte)
                    THEN Move(Aux(p, [locals EXCEPT !.seen_digit = TRUE]), 1)
                    ELSE At(p, "exponent")
              [] top(p).at = "exponent" ->
                    IF byte \in {101, 69}
                    THEN At(Move(Aux(p, [locals EXCEPT !.is_float = TRUE]),
                                 IF peek_byte(text, p.position + 1) \in {43, 45} THEN 2 ELSE 1),
                            "exp_digits")
                    ELSE At(p, "slice")
              [] top(p).at = "exp_digits" ->
                    IF is_ascii_digit(byte)
                    THEN Move(Aux(p, [locals EXCEPT !.exp_digits = @ + 1]), 1)
                    ELSE IF locals.exp_digits = 0 THEN Fail(p, "expected exponent digits")
                    ELSE At(p, "slice")
              [] top(p).at = "slice" ->
                    IF ~locals.seen_digit
                    THEN Return(p, ErrorWithPosition("expected number", locals.start))
                    ELSE Leave(p, parse_decimal_slice(text, locals.start, p.position,
                                                      locals.is_float))))))

\* the ? operator after a call: the Err of the callee is returned
StepQuestionMark ==
    /\ pc = "parsing"
    /\ parser.stack # <<>>
    /\ ~parser.ret.ok
    /\ Step(Return(parser, parser.ret))

\* the inputs: fragments of every kind, and rows of elements and entries
CursorDocs ==
    { d \in LexDocs :
        \/ d.kind = "octets" /\ d.before = DictContext.before /\ Len(d.body) <= 5
        \/ d.kind = "hex" /\ d.before = DictContext.before
        \/ d.kind = "key" /\ Len(d.tail) = 4
        \/ d.kind \in {"array", "dictionary"} /\ Len(d.body) <= 6
        \/ d.kind \in {"exponent", "decimal"} /\ d.before = ArrayContext.before
                /\ Len(d.head) <= 1 /\ Len(d.tail) <= 1
        \/ d.kind \in {"comment", "string", "const", "octet"} /\ d.blanks = <<47, 47, 99, 10>>
                /\ d.before \in { <<>>, ArrayContext.before } }

CursorInit ==
    /\ doc \in CursorDocs
    /\ text = LexText(doc)
    /\ parser = [position |-> 0, stack |-> <<Frame("parse_str", "start", Idle)>>,
                 ret |-> Ok(Idle)]
    /\ parsed = NoResult
    /\ previous = NoResult
    /\ value = Void
    /\ options = DefaultOptions
    /\ data = Idle
    /\ restored = NoResult
    /\ vec = NoResult
    /\ sink = Idle
    /\ pc = "parsing"
    /\ ser = Idle
    /\ de = Idle
    /\ calls = <<>>

CursorNext ==
    \/ StepParseStr
    \/ StepSkipWs
    \/ StepSkipInlineWs
    \/ StepConsumeConstHint
    \/ StepConsumeDigits
    \/ StepParseValue
    \/ StepParseArray
    \/ StepParseDictionary
    \/ StepParseDictKey
    \/ StepParseString
    \/ StepParseEscape
    \/ StepReadHexDigits
    \/ StepParseOctet
    \/ StepParseNumber
    \/ StepQuestionMark

CursorSpec == CursorInit /\ [][CursorNext]_vars

\* the inputs whose numbers are a few digits long
ShortDocs ==
    { d \in CursorDocs :
        /\ d.kind \in {"decimal", "exponent"} => Len(d.head) + Len(d.body) <= 5
        /\ d.kind = "hex" => Len(d.body) <= 1 }

CursorFairInit == CursorInit /\ doc \in ShortDocs

\* parse_str is one call of a single thread: it runs until it returns
CursorFairSpec == CursorFairInit /\ [][CursorNext]_vars /\ WF_vars(CursorNext)

-----------------------------------------------------------------------------
(* Claims about the cursor of the parser (CursorSpec, CursorFairSpec) *)

\* the running function is at the head of a loop it has been at before
NextRound ==
    /\ pc = "parsing"
    /\ parser.stack # <<>>
    /\ parser.ret.ok
    /\ <<top(parser).fn, top(parser).at>> \in LoopHeads
    /\ top(parser).at \in DOMAIN top(parser).mark

\* C29: parse_str returns a Value or an error on every input: a loop of skip_ws,
\* consume_const_hint, parse_array, parse_dictionary, parse_string, parse_octet
\* or parse_number that starts another round has moved the cursor forward since
\* the round before
C29_Terminates ==
    /\ <>(pc = "done" /\ parser.stack = <<>> /\ parsed = parser.ret)
    /\ [](NextRound => parser.position > top(parser).mark[top(parser).at])

\* parse_array starts its third round
C29_Witness ==
    /\ NextRound
    /\ top(parser).fn = "parse_array"
    /\ Len(top(parser).acc) = 2
    /\ parser.position > top(parser).mark["loop"]

\* a char starts at this offset of the input, or the input ends there
is_char_boundary(input, pos) ==
    pos = Len(input) \/ input[pos + 1] < 128 \/ input[pos + 1] >= 192

\* C30: during a parse the cursor never moves back, stays within 0..=len on a
\* char boundary of the input, and the offset of a parse error is within 0..=len
C30_CursorRange ==
    /\ [](/\ parser.position \in 0..Len(text)
          /\ is_char_boundary(text, parser.position)
          /\ ~parser.ret.ok => parser.ret.position.v \in 0..Len(text)
          /\ (pc = "done" /\ ~parsed.ok) => parsed.position.v \in 0..Len(text))
    /\ [][parser'.position >= parser.position]_vars

\* a string with a char of several bytes is not closed: the error is at the end
\* of the input
C30_Witness ==
    /\ pc = "done"
    /\ parsed = ErrorWithPosition("unterminated string", Len(text))
    /\ parser.position = Len(text)
    /\ \E i \in DOMAIN text : text[i] >= 128

=============================================================================
